---- MODULE Spec2Model ----
(***************************************************************************)
(* Model of bayesdb/engine.py: the Engine's model-ensemble lifecycle        *)
(* (initialize_models, load_models, save_models, drop_models, analyze),     *)
(* its tables (create_btable, drop_btable, label_columns, show_model) and   *)
(* its queries (select, infer, simulate, with INTO), over the catalog kept  *)
(* by the persistence layer and the CrossCat backend reached through        *)
(* call_backend.                                                            *)
(***************************************************************************)
EXTENDS Integers, Sequences, FiniteSets, TLC

(***************************************************************************)
(* Bounds of the model.                                                     *)
(***************************************************************************)
\* The catalog is kept small: its work, the number of models in it plus the
\* number of analyze iterations recorded in their diagnostic series, is at
\* most MaxWork, and every model id is below MaxWork.
MaxWork == 3

(***************************************************************************)
(* Program constants.                                                       *)
(***************************************************************************)
\* iterations given to every model of a version 0.1 file
LegacyIterations == 500
\* iterations used by analyze when none is given
DefaultIterations == 1000

TableNames == {"t1", "t2"}

(***************************************************************************)
(* Python values.  Every argument carries its Python type, since the code   *)
(* branches on type(...).  A str is a sequence of one-character strings, so *)
(* that lower() and upper() are computed character by character.            *)
(***************************************************************************)
PyNone == [type |-> "NoneType"]
PyStr(s) == [type |-> "str", val |-> s]
PyInt(i) == [type |-> "int", val |-> i]
PyList(l) == [type |-> "list", val |-> l]
PyDict(d) == [type |-> "dict", val |-> d]

\* the upper-case letters and their lower-case forms
ToLower ==
  [A |-> "a", B |-> "b", C |-> "c", D |-> "d", E |-> "e", F |-> "f", G |-> "g",
   H |-> "h", I |-> "i", J |-> "j", K |-> "k", L |-> "l", M |-> "m", N |-> "n",
   O |-> "o", P |-> "p", Q |-> "q", R |-> "r", S |-> "s", T |-> "t", U |-> "u",
   V |-> "v", W |-> "w", X |-> "x", Y |-> "y", Z |-> "z"]
ToUpper ==
  [a |-> "A", b |-> "B", c |-> "C", d |-> "D", e |-> "E", f |-> "F", g |-> "G",
   h |-> "H", i |-> "I", j |-> "J", k |-> "K", l |-> "L", m |-> "M", n |-> "N",
   o |-> "O", p |-> "P", q |-> "Q", r |-> "R", s |-> "S", t |-> "T", u |-> "U",
   v |-> "V", w |-> "W", x |-> "X", y |-> "Y", z |-> "Z"]

UpperChar(c) == IF c \in DOMAIN ToUpper THEN ToUpper[c] ELSE c

\* str.lower() and str.upper()
Lower(s) == [k \in DOMAIN s |-> IF s[k] \in DOMAIN ToLower THEN ToLower[s[k]] ELSE s[k]]
Upper(s) == [k \in DOMAIN s |-> UpperChar(s[k])]

Max(S) == CHOOSE x \in S : \A y \in S : y <= x
Min2(a, b) == IF a <= b THEN a ELSE b

\* sorted(keys): the ids of S in ascending order
RECURSIVE Sorted(_)
Sorted(S) ==
  IF S = {} THEN <<>>
  ELSE LET m == CHOOSE x \in S : \A y \in S : x <= y
       IN <<m>> \o Sorted(S \ {m})

\* zip(a, b): pairs by position, as many as the shorter list has
Zip(a, b) == [k \in 1..Min2(Len(a), Len(b)) |-> <<a[k], b[k]>>]

(***************************************************************************)
(* State.                                                                   *)
(*   btables  the names of the tables of the catalog                        *)
(*   models   per table, the ensemble: model id -> model dict               *)
(*   tabledata per table, what the catalog stores besides the models: the   *)
(*            schema, the rows, the column labels and the named lists       *)
(*   last     the last Engine call: its name, table, outcome ("ok" or the   *)
(*            exception raised), backend calls and return value             *)
(*   inflight per caller, the analyze call waiting for the backend          *)
(***************************************************************************)
VARIABLES btables, models, tabledata, last, inflight

vars == <<btables, models, tabledata, last, inflight>>

Callers == {"c1", "c2"}
Idle == [stage |-> "idle"]
NoEnsemble == [i \in {} |-> PyNone]

(***************************************************************************)
(* Model configurations (initialize_models).                                *)
(***************************************************************************)
NaiveBayesName == <<"n","a","i","v","e"," ","b","a","y","e","s">>
CrpMixtureName == <<"c","r","p"," ","m","i","x","t","u","r","e">>

NaiveBayesConfig ==
  [kernel_list |-> <<"column_hyperparameters">>,
   initialization |-> "together",
   row_initialization |-> "together"]
CrpMixtureConfig ==
  [kernel_list |-> <<"column_hyperparameters",
                     "row_partition_hyperparameters",
                     "row_partition_assignments">>,
   initialization |-> "together",
   row_initialization |-> "from_the_prior"]
DefaultConfig ==
  [kernel_list |-> <<>>,
   initialization |-> "from_the_prior",
   row_initialization |-> "from_the_prior"]

ConfigKeys == {"kernel_list", "initialization", "row_initialization"}

\* ResolveModelConfig comparing the preset names as they are given, without
\* lower(): C4 must not hold of it
ResolveModelConfig_CaseSensitive(model_config) ==
  IF model_config.type = "str" /\ model_config.val = NaiveBayesName
    THEN [err |-> "ok", config |-> NaiveBayesConfig]
  ELSE IF model_config.type = "str" /\ model_config.val = CrpMixtureName
    THEN [err |-> "ok", config |-> CrpMixtureConfig]
  ELSE IF \/ model_config.type # "dict"
          \/ "kernel_list" \notin DOMAIN model_config.val
          \/ "initialization" \notin DOMAIN model_config.val
          \/ "row_initialization" \notin DOMAIN model_config.val
    THEN [err |-> "ok", config |-> DefaultConfig]
  ELSE [err |-> "Invalid model config", config |-> model_config.val]

\* The if / elif / elif / else of initialize_models: the configuration the
\* call goes on with, or the exception of the else branch.
ResolveModelConfig(model_config) ==
  IF model_config.type = "str" /\ Lower(model_config.val) = NaiveBayesName
    THEN [err |-> "ok", config |-> NaiveBayesConfig]
  ELSE IF model_config.type = "str" /\ Lower(model_config.val) = CrpMixtureName
    THEN [err |-> "ok", config |-> CrpMixtureConfig]
  ELSE IF \/ model_config.type # "dict"
          \/ "kernel_list" \notin DOMAIN model_config.val
          \/ "initialization" \notin DOMAIN model_config.val
          \/ "row_initialization" \notin DOMAIN model_config.val
    THEN [err |-> "ok", config |-> DefaultConfig]
  ELSE [err |-> "Invalid model config", config |-> model_config.val]

(***************************************************************************)
(* The catalog (persistence_layer.PersistenceLayer), on one ensemble        *)
(* ens: model id -> model dict.                                             *)
(***************************************************************************)
check_if_table_exists(tablename) == tablename \in btables

has_models(tablename) == DOMAIN models[tablename] # {}

get_models(tablename) == models[tablename]

MaxModelId(ens) == IF DOMAIN ens = {} THEN -1 ELSE Max(DOMAIN ens)

get_max_model_id(tablename) == MaxModelId(models[tablename])

\* the configuration stored with the ensemble: that of its newest model,
\* None when there is no model or the model stores none
get_model_config(tablename) ==
  LET ens == models[tablename] IN
  IF DOMAIN ens = {} THEN PyNone
  ELSE LET model == ens[MaxModelId(ens)] IN
       IF "model_config" \in DOMAIN model THEN model.model_config ELSE PyNone

\* new models take the ids after the largest one, in list order
add_models(ens, model_list) ==
  LET base == MaxModelId(ens) IN
  [i \in DOMAIN ens \cup ((base + 1)..(base + Len(model_list))) |->
     IF i \in DOMAIN ens THEN ens[i] ELSE model_list[i - base]]

\* None or no list drops every model, a list drops the ids it names
drop_models(ens, model_indices) ==
  IF model_indices.type = "list"
    THEN [i \in DOMAIN ens \ {model_indices.val[k] : k \in DOMAIN model_indices.val} |-> ens[i]]
    ELSE NoEnsemble

SeriesOf(model, key) == IF key \in DOMAIN model THEN model[key] ELSE <<>>

\* column idx of a diagnostic array of shape iterations x models
DiagColumn(array, idx) == [r \in 1..Len(array) |-> array[r][idx]]

\* one model after an analyze: new latent state, iterations incremented by the
\* length of the logscore series, diagnostics appended
UpdatedModel(model, X_L, X_D, diagnostics_dict, idx) ==
  LET new_iterations == Len(diagnostics_dict.logscore)
      base == [X_L |-> X_L, X_D |-> X_D,
               iterations |-> model.iterations + new_iterations,
               column_crp_alpha |-> SeriesOf(model, "column_crp_alpha")
                    \o DiagColumn(diagnostics_dict.column_crp_alpha, idx),
               logscore |-> SeriesOf(model, "logscore")
                    \o DiagColumn(diagnostics_dict.logscore, idx),
               num_views |-> SeriesOf(model, "num_views")
                    \o DiagColumn(diagnostics_dict.num_views, idx)]
  IN IF "model_config" \in DOMAIN model
       THEN [X_L |-> base.X_L, X_D |-> base.X_D, iterations |-> base.iterations,
             column_crp_alpha |-> base.column_crp_alpha, logscore |-> base.logscore,
             num_views |-> base.num_views, model_config |-> model.model_config]
       ELSE base

\* update_models: the selected models, one after the other, from position idx on
RECURSIVE UpdateFrom(_, _, _, _, _, _)
UpdateFrom(ens, modelids, X_L_list, X_D_list, diagnostics_dict, idx) ==
  IF idx > Len(modelids) THEN ens
  ELSE UpdateFrom(
         [ens EXCEPT ![modelids[idx]] =
            UpdatedModel(@, X_L_list[idx], X_D_list[idx], diagnostics_dict, idx)],
         modelids, X_L_list, X_D_list, diagnostics_dict, idx + 1)

update_models(ens, modelids, X_L_list, X_D_list, diagnostics_dict) ==
  UpdateFrom(ens, modelids, X_L_list, X_D_list, diagnostics_dict, 1)

\* models.values() of a dict keyed by small integers: ascending key order
Values(ens) ==
  LET ids == Sorted(DOMAIN ens) IN [k \in 1..Len(ids) |-> ens[ids[k]]]

(***************************************************************************)
(* The CrossCat backend behind call_backend.  A latent state is opaque to   *)
(* the engine; the model keeps of it the chain it belongs to and the number *)
(* of analyze iterations applied to it.                                     *)
(***************************************************************************)
Latent(part, chain, steps) == [part |-> part, chain |-> chain, steps |-> steps]

\* initialize: n_chains fresh states; one chain comes back as a bare pair,
\* several as two lists
BackendInitialize(n_chains) ==
  IF n_chains = 1
    THEN <<Latent("X_L", 1, 0), Latent("X_D", 1, 0)>>
    ELSE <<[k \in 1..n_chains |-> Latent("X_L", k, 0)],
           [k \in 1..n_chains |-> Latent("X_D", k, 0)]>>

Advance(latent, done) == [latent EXCEPT !.steps = @ + done]

\* analyze: every chain advanced by the done iterations, and one diagnostic
\* row per iteration with one entry per chain
BackendAnalyze(X_L_list, X_D_list, done) ==
  LET row(r) == [k \in 1..Len(X_L_list) |-> X_L_list[k].steps + r]
      array == [r \in 1..done |-> row(r)]
  IN <<[k \in 1..Len(X_L_list) |-> Advance(X_L_list[k], done)],
       [k \in 1..Len(X_D_list) |-> Advance(X_D_list[k], done)],
       [logscore |-> array, num_views |-> array, column_crp_alpha |-> array]>>

(***************************************************************************)
(* Engine calls.  Each operator below computes what one call does to the    *)
(* ensemble of its table: the outcome, the backend calls and the ensemble   *)
(* afterwards.  The actions further down apply them to the state.           *)
(***************************************************************************)
Outcome(err, calls, ens, ret) == [err |-> err, calls |-> calls, ens |-> ens, ret |-> ret]

\* what the state keeps of a finished call
Call(op, tablename, args, out) ==
  [op |-> op, tablename |-> tablename, args |-> args,
   err |-> out.err, calls |-> out.calls, ret |-> out.ret]

\* show_models: (model id, iterations) by ascending id, or the message
show_models(ens) ==
  IF DOMAIN ens = {}
    THEN [message |-> "No models"]
    ELSE [models |-> LET ids == Sorted(DOMAIN ens)
                     IN [k \in 1..Len(ids) |-> <<ids[k], ens[ids[k]].iterations>>]]

\* NewModel storing the version 0.1 shape, without series and configuration:
\* C5 must not hold of it
NewModel_Legacy(X_L, X_D, model_config) ==
  [X_L |-> X_L, X_D |-> X_D, iterations |-> 0]

\* the dict initialize_models stores for one chain
NewModel(X_L, X_D, model_config) ==
  [X_L |-> X_L, X_D |-> X_D, iterations |-> 0,
   column_crp_alpha |-> <<>>, logscore |-> <<>>, num_views |-> <<>>,
   model_config |-> model_config]

\* "If n_models is 1, initialize returns X_L and X_D instead of lists"
AsLists(n_models, out) ==
  IF n_models = 1 THEN <<<<out[1]>>, <<out[2]>>>> ELSE out

initialize_models(tablename, n_models, model_config, raised) ==
  LET ens == models[tablename] IN
  IF ~check_if_table_exists(tablename)
    THEN Outcome("BayesDBInvalidBtableError", <<>>, ens, PyNone)
  ELSE
  LET resolved == ResolveModelConfig(model_config)
      existing_model_config == get_model_config(tablename)
  IN
  IF resolved.err # "ok"
    THEN Outcome(resolved.err, <<>>, ens, PyNone)
  ELSE IF existing_model_config # PyNone /\ existing_model_config # resolved.config
    THEN Outcome("model config must match existing model config", <<>>, ens, PyNone)
  ELSE
  LET call == [method |-> "initialize",
               args |-> [T |-> tablename, n_chains |-> n_models,
                         initialization |-> resolved.config.initialization,
                         row_initialization |-> resolved.config.row_initialization],
               raised |-> raised]
  IN
  IF raised
    THEN Outcome("BackendError", <<call>>, ens, PyNone)
  ELSE
  LET lists == AsLists(n_models, BackendInitialize(n_models))
      pairs == Zip(lists[1], lists[2])
      model_list == [k \in 1..Len(pairs) |->
                       NewModel(pairs[k][1], pairs[k][2], resolved.config)]
      after == add_models(ens, model_list)
  IN Outcome("ok", <<call>>, after, show_models(after))

\* save_models: the stored dict, handed to the client
save_models(tablename) ==
  LET ens == models[tablename] IN
  IF ~check_if_table_exists(tablename)
    THEN Outcome("BayesDBInvalidBtableError", <<>>, ens, PyNone)
    ELSE Outcome("ok", <<>>, ens, [models |-> get_models(tablename)])

\* UpgradeLegacy giving the models of a version 0.1 file no iterations:
UpgradeLegacy_Unstarted(old_models) ==
  LET pairs == Zip(old_models.X_L_list, old_models.X_D_list) IN
  [id \in 0..(Len(pairs) - 1) |->
     [X_L |-> pairs[id + 1][1], X_D |-> pairs[id + 1][2], iterations |-> 0]]

\* the version 0.1 shape: two parallel lists, paired by position
UpgradeLegacy(old_models) ==
  LET pairs == Zip(old_models.X_L_list, old_models.X_D_list) IN
  [id \in 0..(Len(pairs) - 1) |->
     [X_L |-> pairs[id + 1][1], X_D |-> pairs[id + 1][2],
      iterations |-> LegacyIterations]]

\* load_models storing the models of the file under the ids they have in
\* the file, over the models the table holds under these ids:
load_models_Overlay(tablename, file) ==
  LET ens == models[tablename] IN
  IF ~check_if_table_exists(tablename)
    THEN Outcome("BayesDBInvalidBtableError", <<>>, ens, PyNone)
  ELSE
  LET loaded == IF "X_L_list" \in DOMAIN file THEN UpgradeLegacy(file) ELSE file.models
      after == [i \in DOMAIN ens \cup DOMAIN loaded |->
                  IF i \in DOMAIN loaded THEN loaded[i] ELSE ens[i]]
  IN Outcome("ok", <<>>, after, show_models(after))

\* load_models.  A file is a record: the version 0.1 dict with its keys
\* X_L_list and X_D_list, or the saved dict of models under the one field
\* models (so that its integer keys are told from the string keys).
load_models(tablename, file) ==
  LET ens == models[tablename] IN
  IF ~check_if_table_exists(tablename)
    THEN Outcome("BayesDBInvalidBtableError", <<>>, ens, PyNone)
  ELSE
  LET loaded == IF "X_L_list" \in DOMAIN file THEN UpgradeLegacy(file) ELSE file.models
      after == add_models(ens, Values(loaded))
  IN Outcome("ok", <<>>, after, show_models(after))

Engine_drop_models(tablename, model_indices) ==
  LET ens == models[tablename] IN
  IF ~check_if_table_exists(tablename)
    THEN Outcome("BayesDBInvalidBtableError", <<>>, ens, PyNone)
  ELSE
  LET after == drop_models(ens, model_indices)
  IN Outcome("ok", <<>>, after, show_models(after))

(***************************************************************************)
(* analyze.                                                                 *)
(***************************************************************************)
Digit(i) == <<"0","1","2","3","4","5","6","7","8","9">>[i + 1]

RECURSIVE JoinInts(_)
JoinInts(l) ==
  IF l = <<>> THEN <<>>
  ELSE IF Len(l) = 1 THEN <<Digit(l[1])>>
  ELSE <<Digit(l[1]), ",", " ">> \o JoinInts(Tail(l))

\* str(value), for the values model_indices takes
Str(value) ==
  IF value.type = "str" THEN value.val
  ELSE IF value.type = "NoneType" THEN <<"N","o","n","e">>
  ELSE IF value.type = "int" THEN <<Digit(value.val)>>
  ELSE <<"[">> \o JoinInts(value.val) \o <<"]">>

AllName == <<"A","L","L">>

\* the arguments of the backend call, with the optional keys
AnalyzeArgs(tablename, X_L_list, X_D_list, kernel_list, iterations, seconds, ct_kernel) ==
  LET n_steps == IF iterations = PyNone THEN DefaultIterations ELSE iterations.val IN
  IF ct_kernel # 0 /\ seconds # PyNone
    THEN [T |-> tablename, X_L |-> X_L_list, X_D |-> X_D_list, do_diagnostics |-> TRUE,
          kernel_list |-> kernel_list, n_steps |-> n_steps,
          CT_KERNEL |-> ct_kernel, max_time |-> seconds.val]
  ELSE IF ct_kernel # 0
    THEN [T |-> tablename, X_L |-> X_L_list, X_D |-> X_D_list, do_diagnostics |-> TRUE,
          kernel_list |-> kernel_list, n_steps |-> n_steps, CT_KERNEL |-> ct_kernel]
  ELSE IF seconds # PyNone
    THEN [T |-> tablename, X_L |-> X_L_list, X_D |-> X_D_list, do_diagnostics |-> TRUE,
          kernel_list |-> kernel_list, n_steps |-> n_steps, max_time |-> seconds.val]
  ELSE [T |-> tablename, X_L |-> X_L_list, X_D |-> X_D_list, do_diagnostics |-> TRUE,
        kernel_list |-> kernel_list, n_steps |-> n_steps]

\* SelectModelIds taking every model whatever the list says: C6 must not
\* hold of it
SelectModelIds_All(ens, model_indices) ==
  Sorted(DOMAIN ens)

\* which models an analyze call selects: all of them in ascending id order,
\* or the list given
SelectModelIds(ens, model_indices) ==
  IF model_indices = PyNone \/ Upper(Str(model_indices)) = AllName
    THEN Sorted(DOMAIN ens)
    ELSE model_indices.val

\* analyze_snapshot taking the kernel list of the newest model of the
\* ensemble, not of the first selected one:
analyze_snapshot_Newest(tablename, model_indices, iterations, seconds, ct_kernel) ==
  LET ens == get_models(tablename)
      stop(err) == [err |-> err, modelids |-> <<>>, args |-> PyNone]
  IN
  IF ~(\/ model_indices = PyNone
       \/ Upper(Str(model_indices)) = AllName
       \/ model_indices.type = "list") THEN stop("AssertionError")
  ELSE
  LET modelids == SelectModelIds(ens, model_indices) IN
  IF \E k \in DOMAIN modelids : modelids[k] \notin DOMAIN ens THEN stop("KeyError")
  ELSE IF modelids = <<>> THEN stop("IndexError")
  ELSE
  LET X_L_list == [k \in DOMAIN modelids |-> ens[modelids[k]].X_L]
      X_D_list == [k \in DOMAIN modelids |-> ens[modelids[k]].X_D]
      newest == ens[MaxModelId(ens)]
      kernel_list ==
        IF "model_config" \in DOMAIN newest /\ "kernel_list" \in DOMAIN newest.model_config
          THEN newest.model_config.kernel_list
          ELSE <<>>
  IN [err |-> "ok", modelids |-> modelids,
      args |-> AnalyzeArgs(tablename, X_L_list, X_D_list, kernel_list,
                           iterations, seconds, ct_kernel)]

\* the snapshot of the selected models and the arguments of the backend call
analyze_snapshot(tablename, model_indices, iterations, seconds, ct_kernel) ==
  LET ens == get_models(tablename)
      stop(err) == [err |-> err, modelids |-> <<>>, args |-> PyNone]
  IN
  IF ~(\/ model_indices = PyNone
       \/ Upper(Str(model_indices)) = AllName
       \/ model_indices.type = "list") THEN stop("AssertionError")
  ELSE
  LET modelids == SelectModelIds(ens, model_indices) IN
  IF \E k \in DOMAIN modelids : modelids[k] \notin DOMAIN ens THEN stop("KeyError")
  ELSE IF modelids = <<>> THEN stop("IndexError")
  ELSE
  LET X_L_list == [k \in DOMAIN modelids |-> ens[modelids[k]].X_L]
      X_D_list == [k \in DOMAIN modelids |-> ens[modelids[k]].X_D]
      first_model == ens[modelids[1]]
      kernel_list ==
        IF "model_config" \in DOMAIN first_model
             /\ "kernel_list" \in DOMAIN first_model.model_config
          THEN first_model.model_config.kernel_list
          ELSE <<>>
  IN [err |-> "ok", modelids |-> modelids,
      args |-> AnalyzeArgs(tablename, X_L_list, X_D_list, kernel_list,
                           iterations, seconds, ct_kernel)]

\* analyze_prepare without the has_models check: C8 must not hold of it
analyze_prepare_Unchecked(tablename, model_indices, iterations, seconds, ct_kernel) ==
  LET stop(err) == [err |-> err, modelids |-> <<>>, args |-> PyNone] IN
  IF ~check_if_table_exists(tablename) THEN stop("BayesDBInvalidBtableError")
  ELSE IF get_max_model_id(tablename) = -1 THEN stop("You must INITIALIZE MODELS")
  ELSE analyze_snapshot(tablename, model_indices, iterations, seconds, ct_kernel)

\* analyze up to the backend call: the checks, then the snapshot.  The
\* first two checks raise; with no model id the call returns its message,
\* which err carries like the exceptions.
analyze_prepare(tablename, model_indices, iterations, seconds, ct_kernel) ==
  LET stop(err) == [err |-> err, modelids |-> <<>>, args |-> PyNone] IN
  IF ~check_if_table_exists(tablename) THEN stop("BayesDBInvalidBtableError")
  ELSE IF ~has_models(tablename) THEN stop("BayesDBNoModelsError")
  ELSE IF get_max_model_id(tablename) = -1 THEN stop("You must INITIALIZE MODELS")
  ELSE analyze_snapshot(tablename, model_indices, iterations, seconds, ct_kernel)

\* the work in an ensemble: its models and the analyze iterations recorded
\* in their diagnostic series
RECURSIVE Work(_, _)
Work(ens, ids) ==
  IF ids = {} THEN 0
  ELSE LET i == CHOOSE x \in ids : TRUE
       IN 1 + Len(SeriesOf(ens[i], "logscore")) + Work(ens, ids \ {i})

RECURSIVE TotalWork(_, _)
TotalWork(catalog, names) ==
  IF names = {} THEN 0
  ELSE LET t == CHOOSE x \in names : TRUE
       IN Work(catalog[t], DOMAIN catalog[t]) + TotalWork(catalog, names \ {t})

\* the catalog stays within the bound
Fits(catalog) ==
  /\ TotalWork(catalog, TableNames) <= MaxWork
  /\ \A t \in TableNames : MaxModelId(catalog[t]) < MaxWork

\* What the backend does with one analyze call.  It returns after
\* result.done iterations on every chain, at most n_steps and no more than
\* the bound on the catalog leaves room for; or it fails on one chain,
\* result.failed (the first or the last), when the other chains have done
\* result.done iterations (a failing call leaves the catalog as it is, so the
\* room does not limit it).
BackendResults(args) ==
  LET n == Len(args.X_L)
      room == (MaxWork - TotalWork(models, TableNames)) \div n
  IN {[done |-> d, failed |-> {}] : d \in 0..Min2(args.n_steps, room)}
       \cup {[done |-> Min2(args.n_steps, MaxWork), failed |-> {k}] : k \in {1, n}}

\* analyze_finish crediting the models with the iterations asked for, not
\* with those the backend ran: C7 must not hold of it
analyze_finish_Requested(ens, prepared, result) ==
  LET call == [method |-> "analyze", args |-> prepared.args, result |-> result]
  IN
  IF result.failed # {}
    THEN Outcome("BackendError", <<call>>, ens, PyNone)
  ELSE
  LET out == BackendAnalyze(prepared.args.X_L, prepared.args.X_D, result.done)
      asked == BackendAnalyze(prepared.args.X_L, prepared.args.X_D, prepared.args.n_steps)
      after == update_models(ens, prepared.modelids, out[1], out[2], asked[3])
  IN Outcome("ok", <<call>>, after,
             [models |-> show_models(after).models, message |-> "Analyze complete."])

\* analyze from the backend call on: call_backend, then update_models on
\* the ensemble as it is stored at that time
analyze_finish(ens, prepared, result) ==
  LET call == [method |-> "analyze", args |-> prepared.args, result |-> result]
  IN
  IF result.failed # {}
    THEN Outcome("BackendError", <<call>>, ens, PyNone)
  ELSE
  LET out == BackendAnalyze(prepared.args.X_L, prepared.args.X_D, result.done)
      after == update_models(ens, prepared.modelids, out[1], out[2], out[3])
  IN Outcome("ok", <<call>>, after,
             [models |-> show_models(after).models, message |-> "Analyze complete."])

(***************************************************************************)
(* Arguments the calls are made with.                                       *)
(***************************************************************************)
CustomConfig ==
  [kernel_list |-> <<"column_partition_assignments">>,
   initialization |-> "apart",
   row_initialization |-> "apart"]

\* a preset name as clients spell it: lower case, capitalised, half and
\* all in upper case
PresetSpellings(name) ==
  {[j \in DOMAIN name |-> IF j <= k THEN UpperChar(name[j]) ELSE name[j]] :
     k \in {0, 1, Len(name) \div 2, Len(name)}}

\* the configurations of the ensemble lifecycle: none, a preset, a dict
ModelConfigInputs == {PyNone, PyStr(NaiveBayesName), PyDict(CustomConfig)}

\* the configurations initialize_models tells apart, among them dicts
\* holding some of the three keys of a configuration
AllModelConfigInputs ==
  {PyNone, PyInt(7), PyList(<<>>), PyStr(<<>>),
   PyStr(<<"c","r","o","s","s","c","a","t">>),
   PyStr(<<"n","a","i","v","e","_","b","a","y","e","s">>)}
    \cup {PyStr(n) : n \in PresetSpellings(NaiveBayesName)}
    \cup {PyStr(n) : n \in PresetSpellings(CrpMixtureName)}
    \cup {PyDict([key \in keys |-> CustomConfig[key]]) : keys \in SUBSET ConfigKeys}

\* lists of model ids: none, one or two ids of ens in ascending order, or
\* the id after the last one, which no model has
IdLists(ens) ==
  LET ids == DOMAIN ens IN
  {<<>>, <<MaxModelId(ens) + 1>>}
    \cup {<<i>> : i \in ids}
    \cup {<<p[1], p[2]>> : p \in {q \in ids \X ids : q[1] < q[2]}}

\* per table, the model_indices a client passes to analyze
AnyIndices(tables) ==
  [t \in tables |->
     {PyNone, PyStr(<<"a","l","l">>), PyStr(<<"m","i","n","e">>)}
       \cup {PyList(l) : l \in IdLists(models[t])}]

\* model_indices left out: every model
NoIndices(tables) == [t \in tables |-> {PyNone}]

\* model_indices of drop_models: every model, or one of them
AnyDrop(tables) ==
  [t \in tables |-> {PyNone} \cup {PyList(<<i>>) : i \in DOMAIN models[t]}]

\* iterations, seconds and ct_kernel of an analyze call: the default number
\* of iterations within a time budget, or a number of iterations
BudgetInputs ==
  {<<PyNone, PyInt(9), 0>>, <<PyInt(2), PyNone, 1>>}

\* a number of iterations and no time budget
IterationBudget == {b \in BudgetInputs : b[2] = PyNone}

\* n_models of initialize_models: one chain, which the backend returns bare,
\* or several
ChainCounts == {1, 2}

\* version 0.1 files: two lists of latent states, not always of one length
LegacyFiles ==
  {[X_L_list |-> [k \in 1..a |-> Latent("X_L", k, 0)],
    X_D_list |-> [k \in 1..b |-> Latent("X_D", k, 0)]] :
      a \in {0} \cup ChainCounts, b \in {0} \cup ChainCounts}

\* the version 0.1 file of one model
OneModelFile ==
  {file \in LegacyFiles : Len(file.X_L_list) = 1 /\ Len(file.X_D_list) = 1}

(***************************************************************************)
(* Tables.  A stored table keeps its column names and declared types in     *)
(* the original order, its rows (None marks a missing value), the labels    *)
(* given to its columns and its named column and row lists.                 *)
(***************************************************************************)
MinOf(S) == CHOOSE x \in S : \A y \in S : x <= y

\* str.strip() for blanks
Strip(s) ==
  LET inked == {k \in DOMAIN s : s[k] # " "} IN
  IF inked = {} THEN <<>> ELSE SubSeq(s, MinOf(inked), Max(inked))

\* a table without labels, without lists
NoEntries == [c \in {} |-> <<>>]

\* what create_btable stores: the header in lower case without blanks around
NewTable(header, raw_T_full, cctypes_full) ==
  [colnames_full |-> [k \in DOMAIN header |-> Strip(Lower(header[k]))],
   cctypes_full |-> cctypes_full,
   T_full |-> raw_T_full,
   column_labels |-> NoEntries,
   column_lists |-> NoEntries,
   row_lists |-> NoEntries]

\* the column names and the function texts of the queries
Text ==
  LET age == <<"a","g","e">>
      of == <<" ","o","f"," ">>
      probability == <<"p","r","o","b","a","b","i","l","i","t","y">>
      similarity == <<"s","i","m","i","l","a","r","i","t","y">>
      typicality == <<"t","y","p","i","c","a","l","i","t","y">>
  IN [age |-> age, job |-> <<"j","o","b">>, height |-> <<"h","e","i","g","h","t">>,
      probability |-> probability, row_id |-> <<"r","o","w","_","i","d">>,
      similarity |-> similarity, typicality |-> typicality,
      predictive_probability |-> <<"p","r","e","d","i","c","t","i","v","e"," ">> \o probability,
      similarity_to_0 |-> similarity \o <<" ","t","o"," ","0">>,
      typicality_of_age |-> typicality \o of \o age,
      probability_of_age |-> probability \o of \o age \o <<"=","1">>]

\* the csv file the clients upload: three columns, two rows, one value missing
People ==
  [header |-> <<<<"A","g","e">>, <<" ","j","o","b">>,
                <<"P","r","o","b","a","b","i","l","i","t","y">>>>,
   cctypes |-> <<"continuous", "multinomial", "continuous">>,
   rows |-> <<<<PyInt(2), PyInt(1), PyInt(1)>>, <<PyInt(1), PyNone, PyInt(2)>>>>]

(***************************************************************************)
(* Actions.                                                                 *)
(***************************************************************************)
Size(ens) == Cardinality(DOMAIN ens)

NoArgs == [type |-> "args"]

Init ==
  /\ btables = {}
  /\ models = [t \in TableNames |-> NoEnsemble]
  /\ tabledata = [t \in TableNames |-> PyNone]
  /\ last = [op |-> "Engine", tablename |-> "", args |-> NoArgs, err |-> "ok",
             calls |-> <<>>, ret |-> PyNone]
  /\ inflight = [c \in Callers |-> Idle]

Quiet == \A c \in Callers : inflight[c] = Idle

\* create_btable: fails on an existing name, else registers the table
CreateBtable(tablename) ==
  /\ IF check_if_table_exists(tablename)
       THEN /\ last' = Call("create_btable", tablename, NoArgs,
                            Outcome("Btable already exists", <<>>, NoEnsemble, PyNone))
            /\ UNCHANGED <<btables, tabledata, models>>
       ELSE /\ btables' = btables \cup {tablename}
            /\ models' = [models EXCEPT ![tablename] = NoEnsemble]
            /\ tabledata' = [tabledata EXCEPT ![tablename] =
                               NewTable(People.header, People.rows, People.cctypes)]
            /\ last' = Call("create_btable", tablename, NoArgs,
                            Outcome("ok", <<>>, NoEnsemble, PyNone))
  /\ UNCHANGED inflight

\* drop_btable: the catalog forgets the table and its models
DropBtable(tablename) ==
  /\ Quiet
  /\ btables' = btables \ {tablename}
  /\ models' = [models EXCEPT ![tablename] = NoEnsemble]
  /\ tabledata' = [tabledata EXCEPT ![tablename] = PyNone]
  /\ last' = Call("drop_btable", tablename, NoArgs,
                  Outcome("ok", <<>>, NoEnsemble, PyNone))
  /\ UNCHANGED inflight

InitializeModels(tablename, n_models, model_config, raised) ==
  /\ LET out == initialize_models(tablename, n_models, model_config, raised) IN
       /\ Fits([models EXCEPT ![tablename] = out.ens])
       /\ models' = [models EXCEPT ![tablename] = out.ens]
       /\ last' = Call("initialize_models", tablename,
                       [n_models |-> n_models, model_config |-> model_config], out)
  /\ UNCHANGED <<btables, tabledata, inflight>>

SaveModels(tablename) ==
  /\ Quiet
  /\ last' = Call("save_models", tablename, NoArgs, save_models(tablename))
  /\ UNCHANGED <<btables, tabledata, models, inflight>>

LoadModels(tablename, file) ==
  /\ Quiet
  /\ LET out == load_models(tablename, file) IN
       /\ Fits([models EXCEPT ![tablename] = out.ens])
       /\ models' = [models EXCEPT ![tablename] = out.ens]
       /\ last' = Call("load_models", tablename, [models |-> file], out)
  /\ UNCHANGED <<btables, tabledata, inflight>>

DropModels(tablename, model_indices) ==
  /\ Quiet
  /\ LET out == Engine_drop_models(tablename, model_indices) IN
       /\ models' = [models EXCEPT ![tablename] = out.ens]
       /\ last' = Call("drop_models", tablename, [model_indices |-> model_indices], out)
  /\ UNCHANGED <<btables, tabledata, inflight>>

AnalyzeInputs(model_indices, iterations, seconds, ct_kernel) ==
  [model_indices |-> model_indices, iterations |-> iterations,
   seconds |-> seconds, ct_kernel |-> ct_kernel]

\* analyze, from the first check to the return, with no other call in between
Analyze(tablename, model_indices, iterations, seconds, ct_kernel) ==
  /\ Quiet
  /\ LET prepared == analyze_prepare(tablename, model_indices, iterations, seconds, ct_kernel)
         args == AnalyzeInputs(model_indices, iterations, seconds, ct_kernel)
     IN IF prepared.err # "ok"
          THEN /\ last' = Call("analyze", tablename, args,
                               Outcome(prepared.err, <<>>, models[tablename], PyNone))
               /\ UNCHANGED models
          ELSE \E result \in BackendResults(prepared.args) :
                 LET out == analyze_finish(models[tablename], prepared, result) IN
                   /\ models' = [models EXCEPT ![tablename] = out.ens]
                   /\ last' = Call("analyze", tablename, args, out)
  /\ UNCHANGED <<btables, tabledata, inflight>>

\* analyze by caller c up to the backend call: refused by a check, or the
\* snapshot is taken and the backend starts on it
AnalyzeCall(c, tablename, model_indices, iterations, seconds, ct_kernel) ==
  /\ inflight[c] = Idle
  /\ LET prepared == analyze_prepare(tablename, model_indices, iterations, seconds, ct_kernel)
         args == AnalyzeInputs(model_indices, iterations, seconds, ct_kernel)
     IN IF prepared.err # "ok"
          THEN /\ last' = Call("analyze", tablename, args,
                               Outcome(prepared.err, <<>>, models[tablename], PyNone))
               /\ UNCHANGED inflight
          ELSE /\ inflight' = [inflight EXCEPT ![c] =
                                 [stage |-> "backend", tablename |-> tablename,
                                  args |-> args, prepared |-> prepared]]
               /\ UNCHANGED last
  /\ UNCHANGED <<btables, tabledata, models>>

\* the backend call of caller c returns, and analyze goes on to its end
AnalyzeReturn(c) ==
  /\ inflight[c] # Idle
  /\ LET tablename == inflight[c].tablename
         prepared == inflight[c].prepared
     IN \E result \in BackendResults(prepared.args) :
          LET out == analyze_finish(models[tablename], prepared, result) IN
            /\ models' = [models EXCEPT ![tablename] = out.ens]
            /\ last' = Call("analyze", tablename, inflight[c].args, out)
  /\ inflight' = [inflight EXCEPT ![c] = Idle]
  /\ UNCHANGED <<btables, tabledata>>

\* the files a client holds: version 0.1 files and what save_models returned
Files == LegacyFiles \cup (IF last.op = "save_models" /\ last.err = "ok" THEN {last.ret} ELSE {})

\* the calls of a client working on the tables named, with the arguments given
DoInitializeModels(tables, configs) ==
  \E t \in tables, n \in ChainCounts, mc \in configs, raised \in BOOLEAN :
    InitializeModels(t, n, mc, raised)

DoLoadModels(tables, files) ==
  \E t \in tables, file \in files : LoadModels(t, file)

DoDropModels(tables, indices) ==
  \E t \in tables : \E mi \in indices[t] : DropModels(t, mi)

DoAnalyze(tables, indices, budgets) ==
  \E t \in tables :
    \E mi \in indices[t], b \in budgets :
      Analyze(t, mi, b[1], b[2], b[3])

DoAnalyzeCall(tables, indices, budgets) ==
  \E c \in Callers, t \in tables :
    \E mi \in indices[t], b \in budgets :
      AnalyzeCall(c, t, mi, b[1], b[2], b[3])

(***************************************************************************)
(* Queries: select, infer and simulate.                                     *)
(*                                                                          *)
(* The function list of a query arrives as the parse result of the client   *)
(* (the code reads attributes of it and of the givens), the order-by as a   *)
(* list of (text, descending) pairs or False.  The parser and select_utils  *)
(* are collaborators of the engine; they are modelled by their contracts.   *)
(***************************************************************************)
PyTuple(t) == [type |-> "tuple", val |-> t]
PyFunc(name) == [type |-> "function", name |-> name]
PyBool(b) == [type |-> "bool", val |-> b]
ParseResults(l) == [type |-> "ParseResults", val |-> l]

\* x in l, for a list
In(x, l) == \E k \in DOMAIN l : l[k] = x

\* sub in s, for two strs
Contains(s, sub) ==
  \E i \in 0..(Len(s) - Len(sub)) : SubSeq(s, i + 1, i + Len(sub)) = sub

IndexOf(l, x) == MinOf({k \in DOMAIN l : l[k] = x})

\* the functions of a function list, as the client's parse result names them
Column(colname) == [fn |-> "column", text |-> colname]
Function ==
  [similarity |-> [fn |-> "similarity", text |-> Text.similarity_to_0],
   row_typicality |-> [fn |-> "row_typicality", text |-> Text.typicality],
   col_typicality |-> [fn |-> "col_typicality", text |-> Text.typicality_of_age],
   probability |-> [fn |-> "probability", text |-> Text.probability_of_age]]

\* the functions of the module functions behind them
FunctionOf ==
  [column |-> PyFunc("_column"), similarity |-> PyFunc("_similarity"),
   row_typicality |-> PyFunc("_row_typicality"),
   col_typicality |-> PyFunc("_col_typicality"),
   probability |-> PyFunc("_probability")]

ModelBacked ==
  {PyFunc("_similarity"), PyFunc("_row_typicality"),
   PyFunc("_col_typicality"), PyFunc("_probability")}

\* the argument of a resolved function: the index of its column, or None
QueryArgs(item, colnames_full) ==
  IF item.fn = "column" THEN PyInt(IndexOf(colnames_full, item.text) - 1) ELSE PyNone

\* parser.parse_functions: (queries, query_colnames), row_id prepended; a
\* query is a (function, arguments, aggregate) tuple.  A column that the
\* schema does not have is a parse error.
parse_functions(functions, colnames_full) ==
  LET items == functions.val
      known(item) == item.fn # "column" \/ In(item.text, colnames_full)
  IN IF \E k \in DOMAIN items : ~known(items[k])
       THEN [err |-> "BayesDBParseError", queries |-> <<>>, query_colnames |-> <<>>]
       ELSE [err |-> "ok",
             queries |-> <<PyTuple(<<PyFunc("_row_id"), PyNone, PyBool(FALSE)>>)>> \o
                         [k \in DOMAIN items |->
                            PyTuple(<<FunctionOf[items[k].fn],
                                      QueryArgs(items[k], colnames_full),
                                      PyBool(FALSE)>>)],
             query_colnames |-> <<Text.row_id>> \o [k \in DOMAIN items |-> items[k].text]]

\* parser.parse_order_by_clause: a (function, arguments, descending) tuple
\* per term; a term that is no column of the schema is read as the function
\* it names
parse_order_by_clause(order_by, colnames_full) ==
  LET function(text) ==
        IF In(text, colnames_full) THEN Column(text)
        ELSE IF Contains(text, Text.similarity) THEN Function.similarity
        ELSE IF Contains(text, Text.probability) THEN Function.probability
        ELSE Function.row_typicality
  IN IF order_by.type # "list" THEN <<>>
     ELSE [k \in DOMAIN order_by.val |->
             LET item == function(order_by.val[k][1]) IN
               PyTuple(<<FunctionOf[item.fn], QueryArgs(item, colnames_full),
                         PyBool(order_by.val[k][2])>>)]

\* functions._similarity and the like inside select and simulate: functions
\* is there the argument of the call, not the module of that name, and a
\* parse result answers '' for a name it does not hold
GetAttr(functions, name) == PyStr(<<>>)

BlacklistedFunctionNames ==
  <<Text.similarity, Text.typicality, Text.probability, Text.predictive_probability>>

\* the check of select for a table without models: TRUE when it raises
\* BayesDBNoModelsError
NoModelsCheck(functions, queries, order_by) ==
  LET blacklisted_functions ==
        <<GetAttr(functions, "_similarity"), GetAttr(functions, "_row_typicality"),
          GetAttr(functions, "_col_typicality"), GetAttr(functions, "_probability")>>
      order_by_functions == [k \in DOMAIN order_by.val |-> order_by.val[k][1]]
  IN \/ \E b \in DOMAIN blacklisted_functions : In(blacklisted_functions[b], queries)
     \/ /\ order_by.type = "list" /\ Len(order_by.val) > 0
        /\ \E n \in DOMAIN BlacklistedFunctionNames, k \in DOMAIN order_by_functions :
             Contains(order_by_functions[k], BlacklistedFunctionNames[n])

\* what a query leaves: the outcome, the backend calls in order, the return
\* value and the table it creates under its INTO name (None: no table)
QueryOutcome(err, calls, ret, created) ==
  [err |-> err, calls |-> calls, ret |-> ret, created |-> created]

\* persistence_layer.get_latent_states: the latent states by ascending id
get_latent_states(tablename) ==
  LET ens == get_models(tablename)
      ids == Sorted(DOMAIN ens)
  IN [X_L_list |-> [k \in DOMAIN ids |-> ens[ids[k]].X_L],
      X_D_list |-> [k \in DOMAIN ids |-> ens[ids[k]].X_D]]

\* parser.parse_where_clause: (c_idx, op, val) per condition
parse_where_clause(whereclause, colnames_full) ==
  [k \in DOMAIN whereclause.val |->
     <<IndexOf(colnames_full, whereclause.val[k][1]) - 1,
       whereclause.val[k][2], whereclause.val[k][3]>>]

\* a row against the conditions; a missing value satisfies none
IsRowGood(row, where_conditions) ==
  \A k \in DOMAIN where_conditions :
    LET value == row[where_conditions[k][1] + 1]
        op == where_conditions[k][2]
        val == where_conditions[k][3]
    IN /\ value # PyNone
       /\ \/ op = ">" /\ value.val > val
          \/ op = "=" /\ value.val = val

\* the elements of l that satisfy keep, in their order
RECURSIVE FilterSeq(_, _)
FilterSeq(l, keep) ==
  IF l = <<>> THEN <<>>
  ELSE IF Head(l) \in keep THEN <<Head(l)>> \o FilterSeq(Tail(l), keep)
  ELSE FilterSeq(Tail(l), keep)

RECURSIVE Flatten(_)
Flatten(ll) == IF ll = <<>> THEN <<>> ELSE Head(ll) \o Flatten(Tail(ll))

BackendCall(method, args) == [method |-> method, args |-> args, raised |-> FALSE]

\* the backend's answers: the value it imputes or samples for a cell, and
\* the statistic of a function for a row
BackendValue(method, row_id) ==
  IF method = "impute_and_confidence" THEN PyInt(1)
  ELSE IF method = "simple_predictive_sample" THEN PyInt(2)
  ELSE IF method = "_similarity" THEN PyInt(IF row_id = 0 THEN 1 ELSE 0)
  ELSE PyInt(1)

\* select_utils.filter_and_impute_rows: the (row id, values) pairs of the
\* rows that satisfy the where clause; with an impute confidence, a missing
\* value of a queried column is asked of the backend and filled in when
\* the backend is confident enough.  Returns the rows and the backend calls.
filter_and_impute_rows(where_conditions, T_full, colnames_full, query_colnames, impute_confidence, confident) ==
  LET all == [i \in DOMAIN T_full |-> <<i - 1, T_full[i]>>]
      good == {all[i] : i \in {j \in DOMAIN all : IsRowGood(all[j][2], where_conditions)}}
      kept == FilterSeq(all, good)
      queried(c) == In(colnames_full[c], query_colnames)
      missing(r) == FilterSeq([c \in DOMAIN colnames_full |-> c],
                              {c \in DOMAIN colnames_full :
                                 queried(c) /\ kept[r][2][c] = PyNone})
      calls(r) == [k \in DOMAIN missing(r) |->
                     BackendCall("impute_and_confidence",
                                 [row |-> kept[r][1], col |-> missing(r)[k] - 1])]
      imputed(r) == [c \in DOMAIN colnames_full |->
                       IF queried(c) /\ kept[r][2][c] = PyNone /\ confident
                         THEN BackendValue("impute_and_confidence", kept[r][1]) ELSE kept[r][2][c]]
  IN IF impute_confidence = PyNone
       THEN [rows |-> kept, calls |-> <<>>]
       ELSE [rows |-> [r \in DOMAIN kept |-> <<kept[r][1], imputed(r)>>],
             calls |-> Flatten([r \in DOMAIN kept |-> calls(r)])]

\* the value of a resolved function on a row
FunctionValue(query, row) ==
  IF query[1] = PyFunc("_row_id") THEN PyInt(row[1])
  ELSE IF query[1] = PyFunc("_column") THEN row[2][query[2].val + 1]
  ELSE BackendValue(query[1].name, row[1])

\* the backend calls that evaluating the functions on the rows takes
FunctionCalls(queries, rows) ==
  Flatten([r \in DOMAIN rows |->
             LET backed == FilterSeq([k \in DOMAIN queries |-> k],
                                     {k \in DOMAIN queries : queries[k].val[1] \in ModelBacked})
             IN [k \in DOMAIN backed |->
                   BackendCall(queries[backed[k]].val[1].name,
                               [row |-> rows[r][1]])]])

\* Python 2 orders None before every number
SortKey(value) == IF value = PyNone THEN -1 ELSE value.val

\* row a goes before row b under the order-by terms from position k on
RECURSIVE Before(_, _, _, _)
Before(a, b, order_by, k) ==
  IF k > Len(order_by) THEN FALSE
  ELSE LET ka == SortKey(FunctionValue(order_by[k].val, a))
           kb == SortKey(FunctionValue(order_by[k].val, b))
           desc == order_by[k].val[3].val
       IN IF ka = kb THEN Before(a, b, order_by, k + 1)
          ELSE IF desc THEN ka > kb ELSE ka < kb

\* select_utils.order_rows: a stable sort by the order-by terms
order_rows(filtered_rows, order_by) ==
  LET n == Len(filtered_rows)
      rank(i) == Cardinality({j \in 1..n :
                    \/ Before(filtered_rows[j], filtered_rows[i], order_by, 1)
                    \/ /\ ~Before(filtered_rows[i], filtered_rows[j], order_by, 1)
                       /\ j < i})
  IN [p \in 1..n |-> filtered_rows[CHOOSE i \in 1..n : rank(i) = p - 1]]

\* select_utils.compute_result_and_limit: the selected functions on the
\* first limit rows
compute_result_and_limit(filtered_rows, limit, queries) ==
  LET n == IF limit = PyNone THEN Len(filtered_rows) ELSE Min2(limit.val, Len(filtered_rows))
  IN [r \in 1..n |-> [k \in DOMAIN queries |-> FunctionValue(queries[k].val, filtered_rows[r])]]

\* utils.get_cctype_from_M_c: the declared type of a column of the source
\* table, continuous for a column it does not have
get_cctype_from_M_c(table, col) ==
  IF In(col, table.colnames_full)
    THEN table.cctypes_full[IndexOf(table.colnames_full, col)]
    ELSE "continuous"

\* the table of an INTO: the result without its row_id column, each column
\* with the type the source table declares for that name
TableFromExisting(colnames_full, data, table) ==
  LET no_row_id == FilterSeq([k \in DOMAIN colnames_full |-> k],
                             {k \in DOMAIN colnames_full : colnames_full[k] # Text.row_id})
      colnames == [k \in DOMAIN no_row_id |-> colnames_full[no_row_id[k]]]
  IN [colnames_full |-> colnames,
      cctypes_full |-> [k \in DOMAIN colnames |-> get_cctype_from_M_c(table, colnames[k])],
      T_full |-> [r \in DOMAIN data |->
                    [k \in DOMAIN no_row_id |-> data[r][no_row_id[k]]]],
      column_labels |-> NoEntries,
      column_lists |-> NoEntries,
      row_lists |-> NoEntries]

\* create_btable_from_existing writing over a table that exists:
create_btable_from_existing_Overwrite(tablename, colnames_full, data, table) ==
  [err |-> "ok", table |-> TableFromExisting(colnames_full, data, table)]

\* create_btable_from_existing (INTO): refuses a name that exists, else
\* stores the new table
create_btable_from_existing(tablename, colnames_full, data, table) ==
  IF check_if_table_exists(tablename)
    THEN [err |-> "Btable already exists", table |-> PyNone]
    ELSE [err |-> "ok", table |-> TableFromExisting(colnames_full, data, table)]

\* what the backend does during a query: whether its first call raises and,
\* for an imputation, whether it is confident enough
BackendBehaviours == [raised : BOOLEAN, confident : BOOLEAN]

\* select.  The stages after the checks: filter and impute, order, compute
\* and limit, then the INTO and the return value.
select(tablename, functions, whereclause, limit, order_by, impute_confidence, newtablename, backend) ==
  IF ~check_if_table_exists(tablename)
    THEN QueryOutcome("BayesDBInvalidBtableError", <<>>, PyNone, PyNone)
  ELSE
  LET table == tabledata[tablename]
      X_L_list == get_latent_states(tablename).X_L_list
      parsed == parse_functions(functions, table.colnames_full)
      queries == parsed.queries
      query_colnames == parsed.query_colnames
      where_conditions == IF whereclause = PyNone THEN <<>>
                          ELSE parse_where_clause(whereclause, table.colnames_full)
  IN
  IF parsed.err # "ok"
    THEN QueryOutcome(parsed.err, <<>>, PyNone, PyNone)
  ELSE IF Len(X_L_list) = 0 /\ NoModelsCheck(functions, queries, order_by)
    THEN QueryOutcome("BayesDBNoModelsError", <<>>, PyNone, PyNone)
  ELSE
  LET filtered == filter_and_impute_rows(where_conditions, table.T_full, table.colnames_full,
                                         query_colnames, impute_confidence, backend.confident)
      order_terms == IF order_by # PyBool(FALSE)
                       THEN parse_order_by_clause(order_by, table.colnames_full)
                       ELSE <<>>
      ordered == order_rows(filtered.rows, order_terms)
      data == compute_result_and_limit(ordered, limit, queries)
      calls == filtered.calls \o FunctionCalls(order_terms, filtered.rows)
                 \o FunctionCalls(queries, SubSeq(ordered, 1, Len(data)))
      ret == [data |-> data, columns |-> query_colnames]
  IN
  IF calls # <<>> /\ backend.raised
    THEN QueryOutcome("BackendError", <<[calls[1] EXCEPT !.raised = TRUE]>>, PyNone, PyNone)
  ELSE IF newtablename # PyNone
    THEN LET made == create_btable_from_existing(newtablename.val, query_colnames, data, table)
         IN IF made.err # "ok"
              THEN QueryOutcome(made.err, calls, PyNone, PyNone)
              ELSE QueryOutcome("ok", calls, ret, made.table)
  ELSE QueryOutcome("ok", calls, ret, PyNone)

\* infer: select with an impute confidence, for a table that has models
infer(tablename, functions, confidence, whereclause, limit, order_by, newtablename, backend) ==
  IF ~check_if_table_exists(tablename)
    THEN QueryOutcome("BayesDBInvalidBtableError", <<>>, PyNone, PyNone)
  ELSE IF ~has_models(tablename)
    THEN QueryOutcome("BayesDBNoModelsError", <<>>, PyNone, PyNone)
  ELSE select(tablename, functions, whereclause, limit, order_by, confidence, newtablename, backend)

\* simulate: numpredictions rows of the queried columns, the given columns
\* echoed and the others sampled by one backend call
simulate(tablename, functions, givens, numpredictions, newtablename, backend) ==
  IF ~check_if_table_exists(tablename)
    THEN QueryOutcome("BayesDBInvalidBtableError", <<>>, PyNone, PyNone)
  ELSE IF ~has_models(tablename)
    THEN QueryOutcome("BayesDBNoModelsError", <<>>, PyNone, PyNone)
  ELSE
  LET latent == get_latent_states(tablename) IN
  IF Len(latent.X_L_list) = 0
    THEN QueryOutcome("ok", <<>>, [message |-> "You must INITIALIZE MODELS"], PyNone)
  ELSE
  LET table == tabledata[tablename]
      numrows == Len(table.T_full)
      given_conditions == IF givens = PyNone THEN <<>> ELSE givens.val
      given_idxs == {IndexOf(table.colnames_full, given_conditions[k][1]) - 1 :
                       k \in DOMAIN given_conditions}
      given_val(idx) ==
        LET k == CHOOSE j \in DOMAIN given_conditions :
                   IndexOf(table.colnames_full, given_conditions[j][1]) - 1 = idx
        IN PyInt(given_conditions[k][2])
      Y == IF givens = PyNone THEN PyNone
           ELSE PyList([k \in DOMAIN given_conditions |->
                          <<numrows + 1,
                            IndexOf(table.colnames_full, given_conditions[k][1]) - 1,
                            given_conditions[k][2]>>])
      parsed == parse_functions(functions, table.colnames_full)
  IN
  IF parsed.err # "ok"
    THEN QueryOutcome(parsed.err, <<>>, PyNone, PyNone)
  ELSE
  LET col_indices == [k \in 1..(Len(parsed.queries) - 1) |-> parsed.queries[k + 1].val[2]]
      colnames == Tail(parsed.query_colnames)
      query_col_indices == FilterSeq(col_indices,
                                     {idx \in {col_indices[k] : k \in DOMAIN col_indices} :
                                        idx = PyNone \/ idx.val \notin given_idxs})
      Q == [k \in DOMAIN query_col_indices |-> <<numrows + 1, query_col_indices[k]>>]
      calls == IF Len(Q) > 0
                 THEN <<BackendCall("simple_predictive_sample",
                                    [X_L |-> latent.X_L_list, X_D |-> latent.X_D_list,
                                     Y |-> Y, Q |-> Q, n |-> numpredictions])>>
                 ELSE <<>>
      row == [k \in DOMAIN col_indices |->
                IF col_indices[k] # PyNone /\ col_indices[k].val \in given_idxs
                  THEN given_val(col_indices[k].val)
                  ELSE BackendValue("simple_predictive_sample", numrows + 1)]
      data == [r \in 1..numpredictions |-> row]
      ret == [columns |-> colnames, data |-> data]
  IN
  IF calls # <<>> /\ backend.raised
    THEN QueryOutcome("BackendError", <<[calls[1] EXCEPT !.raised = TRUE]>>, PyNone, PyNone)
  ELSE IF numpredictions < 1
    THEN QueryOutcome("AssertionError", calls, PyNone, PyNone)
  ELSE IF newtablename # PyNone
    THEN LET made == create_btable_from_existing(newtablename.val, colnames, data, table)
         IN IF made.err # "ok"
              THEN QueryOutcome(made.err, calls, PyNone, PyNone)
              ELSE QueryOutcome("ok", calls, ret, made.table)
  ELSE QueryOutcome("ok", calls, ret, PyNone)

(***************************************************************************)
(* Labels and plots.                                                        *)
(***************************************************************************)
\* the orders in which a dict may hand out its keys
KeyOrders(mappings) ==
  LET keys == DOMAIN mappings
      n == Cardinality(keys)
  IN {order \in [1..n -> keys] : \A c \in keys : \E k \in 1..n : order[k] = c}

\* label_columns: the labels are written one by one in the order of the
\* dict, up to the first column that the table does not have
label_columns(tablename, mappings, order) ==
  IF ~check_if_table_exists(tablename)
    THEN [err |-> "BayesDBInvalidBtableError", labels |-> PyNone, ret |-> PyNone]
  ELSE
  LET table == tabledata[tablename]
      colnames_full == table.colnames_full
      unknown == {k \in DOMAIN order : ~In(order[k], colnames_full)}
      written == IF unknown = {} THEN order ELSE SubSeq(order, 1, MinOf(unknown) - 1)
      edited == {written[k] : k \in DOMAIN written}
      labels == [c \in DOMAIN table.column_labels \cup edited |->
                   IF c \in edited THEN mappings[c] ELSE table.column_labels[c]]
  IN IF unknown # {}
       THEN [err |-> "BayesDBColumnDoesNotExistError", labels |-> labels, ret |-> PyNone]
       ELSE [err |-> "ok", labels |-> labels,
             ret |-> [data |-> [k \in DOMAIN written |-> <<written[k], mappings[written[k]]>>],
                      columns |-> <<"column", "label">>,
                      message |-> "Updated column labels"]]

\* show_model: reads the latent states and the table at once, then plots
\* the views of the model at position modelid
show_model(tablename, modelid) ==
  IF ~check_if_table_exists(tablename)
    THEN QueryOutcome("BayesDBInvalidBtableError", <<>>, PyNone, PyNone)
  ELSE LET latent == get_latent_states(tablename) IN
       IF modelid >= Len(latent.X_D_list)
         THEN QueryOutcome("IndexError", <<>>, PyNone, PyNone)
         ELSE QueryOutcome("ok", <<>>, PyNone, PyNone)

(***************************************************************************)
(* The schema.                                                              *)
(***************************************************************************)
\* persistence_layer.update_schema: the columns named take the types given
update_schema(table, mappings) ==
  [table EXCEPT !.cctypes_full =
     [k \in DOMAIN table.colnames_full |->
        IF table.colnames_full[k] \in DOMAIN mappings
          THEN mappings[table.colnames_full[k]] ELSE table.cctypes_full[k]]]

\* update_schema changing the types of a table that has models:
Engine_update_schema_Unchecked(tablename, mappings) ==
  IF ~check_if_table_exists(tablename)
    THEN [err |-> "BayesDBInvalidBtableError", table |-> PyNone, ret |-> PyNone]
    ELSE [err |-> "ok", table |-> update_schema(tabledata[tablename], mappings),
          ret |-> [message |-> "Updated schema."]]

\* Engine.update_schema: refused once the table has models; else the schema
\* is updated and shown
Engine_update_schema(tablename, mappings) ==
  IF ~check_if_table_exists(tablename)
    THEN [err |-> "BayesDBInvalidBtableError", table |-> PyNone, ret |-> PyNone]
  ELSE IF has_models(tablename)
    THEN [err |-> "btable already has models", table |-> PyNone, ret |-> PyNone]
  ELSE LET table == update_schema(tabledata[tablename], mappings) IN
       [err |-> "ok", table |-> table,
        ret |-> [columns |-> <<"column", "datatype">>,
                 data |-> Zip(table.colnames_full, table.cctypes_full),
                 message |-> "Updated schema."]]

(***************************************************************************)
(* Relational analysis: estimate_columns and the pairwise matrices, which   *)
(* may store named lists of columns and of rows.                            *)
(***************************************************************************)
\* persistence_layer.add_column_list: the list is stored under the name, in
\* the place of a list of that name
add_column_list(lists, name, column_names) ==
  [n \in DOMAIN lists \cup {name} |-> IF n = name THEN column_names ELSE lists[n]]

\* persistence_layer.add_row_list: the same for a list of rows
add_row_list(lists, name, row_indices) ==
  [n \in DOMAIN lists \cup {name} |-> IF n = name THEN row_indices ELSE lists[n]]

\* what a relational call leaves: the outcome, the return value and the
\* (name, members) pairs of the lists it stores, in the order of storing
EstimateOutcome(err, ret, written) == [err |-> err, ret |-> ret, written |-> written]

\* estimate_columns_utils.order_columns: without an order-by the indices as
\* they are, else (values, index) tuples in a stable sort by the typicality
\* the backend gives each column (here its index), descending if asked
order_columns(column_indices, order_by) ==
  IF order_by.type # "list" \/ order_by.val = <<>> THEN column_indices
  ELSE LET n == Len(column_indices)
           desc == order_by.val[1][2]
           before(a, b) == IF desc THEN a > b ELSE a < b
           rank(i) == Cardinality({j \in 1..n :
                         \/ before(column_indices[j], column_indices[i])
                         \/ column_indices[j] = column_indices[i] /\ j < i})
       IN [p \in 1..n |->
             LET c == column_indices[CHOOSE i \in 1..n : rank(i) = p - 1]
             IN <<<<PyInt(c)>>, c>>]

\* estimate_columns.  column_indices is list(M_c['name_to_idx'].values()):
\* the indices of the columns in the order the dict hands them out.  A where
\* clause is None or the least typicality a column is to exceed.
estimate_columns(tablename, whereclause, limit, order_by, name, column_indices) ==
  IF ~check_if_table_exists(tablename)
    THEN EstimateOutcome("BayesDBInvalidBtableError", PyNone, <<>>)
  ELSE
  LET X_L_list == get_latent_states(tablename).X_L_list
      idx_to_name == tabledata[tablename].colnames_full
      where_conditions == whereclause
  IN
  IF where_conditions # PyNone /\ Len(X_L_list) = 0
    THEN EstimateOutcome("BayesDBNoModelsError", PyNone, <<>>)
  ELSE IF order_by.type = "list" /\ order_by.val # <<>> /\ Len(X_L_list) = 0
    THEN EstimateOutcome("BayesDBNoModelsError", PyNone, <<>>)
  ELSE
  LET filtered == IF where_conditions = PyNone THEN column_indices
                  ELSE FilterSeq(column_indices,
                                 {column_indices[k] : k \in {j \in DOMAIN column_indices :
                                    column_indices[j] > where_conditions.val}})
      ordered == order_columns(filtered, order_by)
      column_idx_tups == IF limit.type = "int"
                           THEN SubSeq(ordered, 1, Min2(limit.val, Len(ordered)))
                           ELSE ordered
      bare == order_by.type # "list" \/ order_by.val = <<>>
      tup(k) == IF bare THEN <<<<>>, column_idx_tups[k]>> ELSE column_idx_tups[k]
      column_names == [k \in DOMAIN column_idx_tups |-> idx_to_name[tup(k)[2] + 1]]
      column_data == [k \in DOMAIN column_idx_tups |-> <<PyStr(column_names[k])>> \o tup(k)[1]]
      columns == <<"column">> \o (IF order_by.type = "list" /\ column_data # <<>>
                                    THEN [k \in DOMAIN order_by.val |-> "typicality"]
                                    ELSE <<>>)
      named == name.type = "str" /\ name.val # <<>>
  IN EstimateOutcome("ok",
                     IF column_data # <<>>
                       THEN [columns |-> columns, data |-> column_data]
                       ELSE [columns |-> columns],
                     IF named THEN <<<<name.val, column_names>>>> ELSE <<>>)

\* pairwise.generate_pairwise_row_matrix and generate_pairwise_column_matrix:
\* the matrix over the items, and with a threshold its connected components
\* (else None), the components by their least member.  related holds the
\* pairs of items that the backend's matrix puts at or above the threshold.
RECURSIVE Components(_, _)
Components(items, related) ==
  IF items = {} THEN <<>>
  ELSE LET reach[n \in 0..Cardinality(items)] ==
             IF n = 0 THEN {MinOf(items)}
             ELSE reach[n - 1] \cup
                    {j \in items : \E i \in reach[n - 1] : {i, j} \in related}
           component == reach[Cardinality(items)]
       IN <<Sorted(component)>> \o Components(items \ component, related)

\* the (name, members) pairs stored for the clusters: "%s_%d" % (clusters_name, i)
ClusterLists(clusters_name, clusters) ==
  [k \in DOMAIN clusters |-> <<Str(clusters_name) \o <<"_", Digit(k - 1)>>, clusters[k]>>]

\* the members of a named list of a table
get_list(lists, name) == IF name \in DOMAIN lists THEN lists[name] ELSE <<>>

\* estimate_pairwise_row: the matrix of a function over the rows of a named
\* row list, or over all rows
estimate_pairwise_row(tablename, function, row_list, clusters_name, threshold, related) ==
  IF ~check_if_table_exists(tablename)
    THEN EstimateOutcome("BayesDBInvalidBtableError", PyNone, <<>>)
  ELSE IF Len(get_latent_states(tablename).X_L_list) = 0
    THEN EstimateOutcome("BayesDBNoModelsError", PyNone, <<>>)
  ELSE
  LET table == tabledata[tablename]
      listed == row_list.type = "str" /\ row_list.val # <<>>
      row_indices == IF listed THEN get_list(table.row_lists, row_list.val)
                     ELSE [r \in DOMAIN table.T_full |-> r - 1]
  IN
  IF listed /\ Len(row_indices) = 0
    THEN EstimateOutcome("Row list has no rows", PyNone, <<>>)
  ELSE
  LET clusters == IF threshold = PyNone THEN PyNone
                  ELSE PyList(Components({row_indices[k] : k \in DOMAIN row_indices}, related))
      ret == [matrix |-> function, column_names |-> row_indices,
              message |-> "Created Pairwise row"]
  IN IF clusters # PyNone
       THEN LET written == ClusterLists(clusters_name, clusters.val) IN
            EstimateOutcome("ok",
                            [matrix |-> ret.matrix, column_names |-> ret.column_names,
                             message |-> ret.message, clusters |-> clusters.val,
                             row_lists |-> [k \in DOMAIN written |->
                                              <<written[k][1], Len(written[k][2])>>]],
                            written)
       ELSE EstimateOutcome("ok", ret, <<>>)

\* estimate_pairwise: the matrix of a function over the columns of a named
\* column list, or over all columns
estimate_pairwise(tablename, function_name, column_list, clusters_name, threshold, related) ==
  IF ~check_if_table_exists(tablename)
    THEN EstimateOutcome("BayesDBInvalidBtableError", PyNone, <<>>)
  ELSE IF Len(get_latent_states(tablename).X_L_list) = 0
    THEN EstimateOutcome("BayesDBNoModelsError", PyNone, <<>>)
  ELSE
  LET table == tabledata[tablename]
      idx_to_name == table.colnames_full
      listed == column_list.type = "str" /\ column_list.val # <<>>
      column_names == IF listed THEN get_list(table.column_lists, column_list.val)
                      ELSE idx_to_name
  IN
  IF listed /\ Len(column_names) = 0
    THEN EstimateOutcome("Column list has no columns", PyNone, <<>>)
  ELSE IF \E i, j \in DOMAIN column_names : i # j /\ column_names[i] = column_names[j]
    THEN EstimateOutcome("duplicate columns", PyNone, <<>>)
  ELSE
  LET indices == {IndexOf(idx_to_name, column_names[k]) - 1 : k \in DOMAIN column_names}
      clusters == IF threshold = PyNone THEN PyNone
                  ELSE PyList(Components(indices, related))
      ret == [matrix |-> function_name, column_names |-> column_names,
              message |-> "Created Pairwise column"]
  IN IF clusters # PyNone
       THEN LET written ==
                  ClusterLists(clusters_name,
                               [k \in DOMAIN clusters.val |->
                                  [c \in DOMAIN clusters.val[k] |->
                                     idx_to_name[clusters.val[k][c] + 1]]])
            IN EstimateOutcome("ok",
                            [matrix |-> ret.matrix, column_names |-> ret.column_names,
                             message |-> ret.message, clusters |-> clusters.val,
                             column_lists |-> written],
                            written)
       ELSE EstimateOutcome("ok", ret, <<>>)

\* the lists of a table after the (name, members) pairs are stored in order
RECURSIVE StoreLists(_, _, _)
StoreLists(table, kind, written) ==
  IF written = <<>> THEN table
  ELSE LET name == Head(written)[1]
           members == Head(written)[2]
       IN StoreLists(IF kind = "row_lists"
                       THEN [table EXCEPT !.row_lists = add_row_list(@, name, members)]
                       ELSE [table EXCEPT !.column_lists = add_column_list(@, name, members)],
                     kind, Tail(written))

\* FinishEstimate keeping a list that is already stored under a name:
FinishEstimate_FirstWins(op, tablename, args, kind, out) ==
  /\ last' = Call(op, tablename, args, [err |-> out.err, calls |-> <<>>, ret |-> out.ret])
  /\ LET lists == IF kind = "row_lists" THEN tabledata[tablename].row_lists
                  ELSE tabledata[tablename].column_lists
         fresh == FilterSeq(out.written,
                            {out.written[k] : k \in {j \in DOMAIN out.written :
                                                       out.written[j][1] \notin DOMAIN lists}})
     IN IF fresh # <<>>
          THEN tabledata' = [tabledata EXCEPT ![tablename] = StoreLists(@, kind, fresh)]
          ELSE UNCHANGED tabledata
  /\ UNCHANGED <<btables, models, inflight>>

\* a finished relational call: the table gains the lists it stored
FinishEstimate(op, tablename, args, kind, out) ==
  /\ last' = Call(op, tablename, args, [err |-> out.err, calls |-> <<>>, ret |-> out.ret])
  /\ IF out.written # <<>>
       THEN tabledata' = [tabledata EXCEPT ![tablename] = StoreLists(@, kind, out.written)]
       ELSE UNCHANGED tabledata
  /\ UNCHANGED <<btables, models, inflight>>

EstimateColumns(tablename, whereclause, limit, order_by, name, column_indices) ==
  FinishEstimate("estimate_columns", tablename,
                 [whereclause |-> whereclause, limit |-> limit, order_by |-> order_by,
                  name |-> name],
                 "column_lists",
                 estimate_columns(tablename, whereclause, limit, order_by, name, column_indices))

EstimatePairwiseRow(tablename, function, row_list, clusters_name, threshold, related) ==
  FinishEstimate("estimate_pairwise_row", tablename,
                 [function |-> function, row_list |-> row_list,
                  clusters_name |-> clusters_name, threshold |-> threshold],
                 "row_lists",
                 estimate_pairwise_row(tablename, function, row_list, clusters_name, threshold, related))

EstimatePairwise(tablename, function_name, column_list, clusters_name, threshold, related) ==
  FinishEstimate("estimate_pairwise", tablename,
                 [function_name |-> function_name, column_list |-> column_list,
                  clusters_name |-> clusters_name, threshold |-> threshold],
                 "column_lists",
                 estimate_pairwise(tablename, function_name, column_list, clusters_name, threshold, related))

(***************************************************************************)
(* The query calls as actions.                                              *)
(***************************************************************************)
\* Finish storing the table of the INTO under the name of the queried table:
Finish_IntoSource(op, tablename, args, newtablename, out) ==
  /\ last' = Call(op, tablename, args, out)
  /\ IF out.created # PyNone
       THEN /\ btables' = btables \cup {tablename}
            /\ tabledata' = [tabledata EXCEPT ![tablename] = out.created]
            /\ models' = [models EXCEPT ![tablename] = NoEnsemble]
       ELSE UNCHANGED <<btables, tabledata, models>>
  /\ UNCHANGED inflight

\* a finished query: the catalog gains the table of its INTO, if it made one
Finish(op, tablename, args, newtablename, out) ==
  /\ last' = Call(op, tablename, args, out)
  /\ IF out.created # PyNone
       THEN /\ btables' = btables \cup {newtablename.val}
            /\ tabledata' = [tabledata EXCEPT ![newtablename.val] = out.created]
            /\ models' = [models EXCEPT ![newtablename.val] = NoEnsemble]
       ELSE UNCHANGED <<btables, tabledata, models>>
  /\ UNCHANGED inflight

Select(tablename, functions, whereclause, limit, order_by, newtablename, backend) ==
  Finish("select", tablename,
         [functions |-> functions, whereclause |-> whereclause, limit |-> limit,
          order_by |-> order_by, newtablename |-> newtablename],
         newtablename,
         select(tablename, functions, whereclause, limit, order_by, PyNone, newtablename, backend))

Infer(tablename, functions, confidence, whereclause, limit, order_by, newtablename, backend) ==
  Finish("infer", tablename,
         [functions |-> functions, confidence |-> confidence, whereclause |-> whereclause,
          limit |-> limit, order_by |-> order_by, newtablename |-> newtablename],
         newtablename,
         infer(tablename, functions, confidence, whereclause, limit, order_by, newtablename, backend))

Simulate(tablename, functions, givens, numpredictions, newtablename, backend) ==
  Finish("simulate", tablename,
         [functions |-> functions, givens |-> givens, numpredictions |-> numpredictions,
          newtablename |-> newtablename],
         newtablename,
         simulate(tablename, functions, givens, numpredictions, newtablename, backend))

LabelColumns(tablename, mappings, order) ==
  /\ LET out == label_columns(tablename, mappings, order) IN
       /\ last' = Call("label_columns", tablename, [mappings |-> mappings],
                       [err |-> out.err, calls |-> <<>>, ret |-> out.ret])
       /\ IF out.labels # PyNone
            THEN tabledata' = [tabledata EXCEPT ![tablename].column_labels = out.labels]
            ELSE UNCHANGED tabledata
  /\ UNCHANGED <<btables, models, inflight>>

UpdateSchema(tablename, mappings) ==
  /\ LET out == Engine_update_schema(tablename, mappings) IN
       /\ last' = Call("update_schema", tablename, [mappings |-> mappings],
                       [err |-> out.err, calls |-> <<>>, ret |-> out.ret])
       /\ IF out.table # PyNone
            THEN tabledata' = [tabledata EXCEPT ![tablename] = out.table]
            ELSE UNCHANGED tabledata
  /\ UNCHANGED <<btables, models, inflight>>

ShowModel(tablename, modelid) ==
  /\ last' = Call("show_model", tablename, [modelid |-> modelid], show_model(tablename, modelid))
  /\ UNCHANGED <<btables, models, tabledata, inflight>>

(***************************************************************************)
(* The queries of the clients.                                              *)
(***************************************************************************)
\* (functions, order_by, newtablename) of the select and infer calls without
\* INTO: raw columns or model-backed functions, no order-by or one over a
\* raw column or over a model-backed function
QueryInputs ==
  LET age == ParseResults(<<Column(Text.age)>>)
      raw == {age, ParseResults(<<Column(Text.job), Column(Text.age)>>)}
      backed == {ParseResults(<<Column(Text.job), Function.similarity>>),
                 ParseResults(<<Function.row_typicality, Function.col_typicality,
                                Function.probability>>)}
      by_raw == {PyList(<<<<Text.age, FALSE>>>>), PyList(<<<<Text.probability, TRUE>>>>)}
      by_backed == {PyList(<<<<Text.similarity_to_0, TRUE>>>>),
                    PyList(<<<<Text.typicality, FALSE>>>>)}
  IN (raw \X ({PyBool(FALSE)} \cup by_raw) \X {PyNone})
       \cup (backed \X {PyBool(FALSE)} \X {PyNone})
       \cup ({age} \X by_backed \X {PyNone})

\* the same with an INTO
IntoInputs ==
  {ParseResults(<<Column(Text.age)>>), ParseResults(<<Column(Text.job), Function.similarity>>)}
    \X {PyBool(FALSE)} \X {PyStr(t) : t \in TableNames}

\* (functions, givens, newtablename) of the simulate calls
SimulateInputs ==
  LET job_age == ParseResults(<<Column(Text.job), Column(Text.age)>>)
  IN ({ParseResults(<<Column(Text.age)>>), job_age}
        \X {PyNone, ParseResults(<<<<Text.age, 1>>>>)} \X {PyNone})
       \cup ({job_age} \X {PyNone} \X {PyStr(t) : t \in TableNames})

\* select and simulate impute nothing; infer does, at confidence 0
DoSelect(tables, queries) ==
  \E t \in tables, q \in queries, backend \in {b \in BackendBehaviours : ~b.confident} :
    Select(t, q[1], PyNone, PyNone, q[2], q[3], backend)

DoInfer(tables, queries) ==
  \E t \in tables, q \in queries, backend \in {b \in BackendBehaviours : ~(b.raised /\ b.confident)} :
    Infer(t, q[1], PyInt(0), PyNone, PyNone, q[2], q[3], backend)

DoSimulate(tables, queries) ==
  \E t \in tables, q \in queries, backend \in {b \in BackendBehaviours : ~b.confident} :
    Simulate(t, q[1], q[2], 1, q[3], backend)

LabelInputs ==
  {[c \in {Text.age} |-> "years"],
   [c \in {Text.height} |-> "cm"],
   [c \in {Text.age, Text.height} |-> IF c = Text.age THEN "years" ELSE "cm"],
   [c \in {Text.age, Text.job} |-> IF c = Text.age THEN "age in years" ELSE "trade"]}

DoLabelColumns(tables) ==
  \E t \in tables, mappings \in LabelInputs :
    \E order \in KeyOrders(mappings) : LabelColumns(t, mappings, order)

(***************************************************************************)
(* SpecQuery: the queries over a table with and without models, with and   *)
(* without an INTO.                                                         *)
(***************************************************************************)
NextQuery ==
  \/ CreateBtable("t1")
  \/ \E raised \in BOOLEAN : InitializeModels("t1", 2, PyNone, raised)
  \/ DoSelect({"t1"}, QueryInputs \cup IntoInputs)
  \/ DoInfer({"t1"}, QueryInputs \cup IntoInputs)
  \/ DoSimulate({"t1"}, SimulateInputs)
  \/ \E q \in {i \in SimulateInputs : i[3] = PyNone}, numpredictions \in {0, 2} :
       Simulate("t1", q[1], q[2], numpredictions, q[3], [raised |-> FALSE, confident |-> FALSE])

SpecQuery == Init /\ [][NextQuery]_vars

(***************************************************************************)
(* SpecCatalog: the calls on a table that may or may not exist.             *)
(***************************************************************************)
NextCatalog ==
  \/ CreateBtable("t1")
  \/ DropBtable("t1")
  \/ \E raised \in BOOLEAN : InitializeModels("t1", 2, PyNone, raised)
  \/ SaveModels("t1")
  \/ DoDropModels({"t1"}, NoIndices({"t1"}))
  \/ DoAnalyze({"t1"}, NoIndices({"t1"}), IterationBudget)
  \/ DoLabelColumns({"t1"})
  \/ \E c \in {Text.age, Text.job}, cctype \in {"continuous", "multinomial"} :
       UpdateSchema("t1", [colname \in {c} |-> cctype])
  \/ ShowModel("t1", 0)
  \/ DoSelect({"t1"}, {q \in QueryInputs : q[2] = PyBool(FALSE)})
  \/ DoInfer({"t1"}, {q \in QueryInputs : q[2] = PyBool(FALSE)})
  \/ DoSimulate({"t1"}, {q \in SimulateInputs : q[3] = PyNone})

SpecCatalog == Init /\ [][NextCatalog]_vars

(***************************************************************************)
(* SpecEstimate: the relational calls on a table with and without models,   *)
(* with and without names to store their lists under.                       *)
(***************************************************************************)
NextEstimate ==
  \/ CreateBtable("t1")
  \/ \E raised \in BOOLEAN : InitializeModels("t1", 2, PyNone, raised)
  \/ \E q \in {<<PyNone, [type |-> "float"], PyBool(FALSE)>>,
               <<PyNone, PyInt(1), PyBool(FALSE)>>,
               <<PyInt(0), [type |-> "float"], PyList(<<<<Text.typicality, TRUE>>>>)>>},
        name \in {PyNone, PyStr(<<"k">>)},
        column_indices \in {<<0, 1, 2>>, <<2, 0, 1>>} :
       EstimateColumns("t1", q[1], q[2], q[3], name, column_indices)
  \/ \E q \in {<<PyNone, PyNone, PyNone, {}>>,
               <<PyNone, PyStr(<<"k">>), PyNone, {}>>,
               <<PyNone, PyStr(<<"k">>), PyInt(1), {}>>,
               <<PyNone, PyStr(<<"k">>), PyInt(1), {{0, 1}}>>,
               <<PyStr(<<"k","_","1">>), PyStr(<<"k">>), PyInt(1), {}>>} :
       EstimatePairwiseRow("t1", "similarity", q[1], q[2], q[3], q[4])
  \/ \E q \in {<<PyNone, PyNone, PyNone, {}>>,
               <<PyNone, PyStr(<<"k">>), PyNone, {}>>,
               <<PyNone, PyStr(<<"k">>), PyInt(1), {}>>,
               <<PyNone, PyStr(<<"k">>), PyInt(1), {{0, 1}}>>,
               <<PyStr(<<"k">>), PyStr(<<"k">>), PyInt(1), {{1, 2}}>>,
               <<PyNone, PyNone, PyInt(1), {{0, 1}, {1, 2}}>>} :
       EstimatePairwise("t1", "correlation", q[1], q[2], q[3], q[4])

SpecEstimate == Init /\ [][NextEstimate]_vars

(***************************************************************************)
(* SpecMixed: an ensemble of models with and without a stored               *)
(* configuration, refined by analyze on all or some of them in any order,   *)
(* read by the queries and thinned by drop_models.                          *)
(***************************************************************************)
NextMixed ==
  \/ CreateBtable("t1")
  \/ \E model_config \in {PyNone, PyStr(NaiveBayesName)}, raised \in BOOLEAN :
       InitializeModels("t1", 1, model_config, raised)
  \/ DoLoadModels({"t1"}, OneModelFile)
  \/ DoDropModels({"t1"}, AnyDrop({"t1"}))
  \/ \E model_indices \in {PyNone, PyList(<<0>>), PyList(<<1>>), PyList(<<0, 1>>),
                          PyList(<<1, 0>>), PyStr(<<"a", "l", "l">>)}, b \in IterationBudget :
       Analyze("t1", model_indices, b[1], b[2], b[3])
  \/ DoSelect({"t1"}, {<<ParseResults(<<Column(Text.job), Function.similarity>>),
                        PyBool(FALSE), PyNone>>})
  \/ DoInfer({"t1"}, {<<ParseResults(<<Column(Text.job)>>), PyBool(FALSE), PyNone>>})
  \/ DoSimulate({"t1"}, {<<ParseResults(<<Column(Text.age)>>), PyNone, PyNone>>})

SpecMixed == Init /\ [][NextMixed]_vars

(***************************************************************************)
(* SpecFiles: the models of one table saved and loaded into it or into a    *)
(* second table, next to the version 0.1 files.                             *)
(***************************************************************************)
NextFiles ==
  \/ \E t \in TableNames : CreateBtable(t)
  \/ DoInitializeModels({"t1"}, {PyNone})
  \/ DoAnalyze({"t1"}, NoIndices({"t1"}), IterationBudget)
  \/ DoDropModels({"t1"}, AnyDrop({"t1"}))
  \/ SaveModels("t1")
  \/ DoLoadModels({"t1"}, OneModelFile)
  \/ DoLoadModels({"t2"}, {file \in Files : "X_L_list" \in DOMAIN file =>
                                            Len(file.X_D_list) = 2})

SpecFiles == Init /\ [][NextFiles]_vars

(***************************************************************************)
(* Spec: the life of the ensemble of a table, one call at a time.           *)
(***************************************************************************)
Next ==
  \/ CreateBtable("t1")
  \/ DropBtable("t1")
  \/ DoInitializeModels({"t1"}, ModelConfigInputs)
  \/ SaveModels("t1")
  \/ DoLoadModels({"t1"}, Files)
  \/ DoDropModels({"t1"}, AnyDrop({"t1"}))
  \/ DoAnalyze({"t1"}, NoIndices({"t1"}), IterationBudget)

Spec == Init /\ [][Next]_vars

(***************************************************************************)
(* SpecConfig: initialize_models with every kind of configuration.          *)
(***************************************************************************)
NextConfig ==
  \/ CreateBtable("t1")
  \/ DoInitializeModels({"t1"}, AllModelConfigInputs)
  \/ DoDropModels({"t1"}, AnyDrop({"t1"}))

SpecConfig == Init /\ [][NextConfig]_vars

(***************************************************************************)
(* SpecAnalyze: one table, its ensemble built by initialize_models and      *)
(* load_models, refined by analyze on all or some of its models and         *)
(* emptied by drop_models.                                                  *)
(***************************************************************************)
NextAnalyze ==
  \/ CreateBtable("t1")
  \/ DoInitializeModels({"t1"}, {PyNone})
  \/ DoLoadModels({"t1"}, OneModelFile)
  \/ DoDropModels({"t1"}, NoIndices({"t1"}))
  \/ DoAnalyze({"t1"}, AnyIndices({"t1"}), BudgetInputs)

SpecAnalyze == Init /\ [][NextAnalyze]_vars

(***************************************************************************)
(* SpecConc: two callers whose analyze calls overlap: each takes its        *)
(* snapshot, waits for the backend and then updates the catalog.            *)
(***************************************************************************)
NextConc ==
  \/ CreateBtable("t1")
  \/ DoInitializeModels({"t1"}, {PyNone})
  \/ DoAnalyzeCall({"t1"}, NoIndices({"t1"}), IterationBudget)
  \/ \E c \in Callers : AnalyzeReturn(c)
  \/ DoSelect({"t1"}, {<<ParseResults(<<Column(Text.age)>>), PyBool(FALSE), PyNone>>})

SpecConc == Init /\ [][NextConc]_vars

(***************************************************************************)
(* Properties.  A step of the model is one Engine call; last' tells which   *)
(* call the step was, with its arguments and outcome, and models is the     *)
(* catalog the call found.                                                  *)
(***************************************************************************)
Elems(l) == {l[k] : k \in DOMAIN l}

\* no backend call of the call raised
BackendWell(call) == \A k \in DOMAIN call.calls : ~call.calls[k].raised

\* a dict with the three keys of a configuration
IsFullConfig(model_config) ==
  model_config.type = "dict" /\ ConfigKeys \subseteq DOMAIN model_config.val

\* the configuration the documentation of initialize_models promises for
\* model_config: the preset named in any case, the dict given if it has the
\* three keys, the default otherwise
PromisedConfig(model_config) ==
  IF model_config.type = "str" /\ model_config.val \in PresetSpellings(NaiveBayesName)
    THEN NaiveBayesConfig
  ELSE IF model_config.type = "str" /\ model_config.val \in PresetSpellings(CrpMixtureName)
    THEN CrpMixtureConfig
  ELSE IF IsFullConfig(model_config) THEN model_config.val
  ELSE DefaultConfig

\* the model initialize_models is to store for chain k under config
FreshModel(k, config) ==
  [X_L |-> Latent("X_L", k, 0), X_D |-> Latent("X_D", k, 0), iterations |-> 0,
   column_crp_alpha |-> <<>>, logscore |-> <<>>, num_views |-> <<>>,
   model_config |-> config]

\* the configuration a model carries: the one stored with it, or none
StoredConfig(model) ==
  IF "model_config" \in DOMAIN model THEN model.model_config ELSE PyNone

\* C1: in every reachable state, all models of an ensemble carry one and the
\* same configuration.  initialize_models checks this, load_models does not,
\* so the property is violated: load_models adds version 0.1 models, which
\* carry none, or models saved under another configuration, to an ensemble
\* that has one.
C1_OneConfigPerEnsemble ==
  \A t \in TableNames : \A i, j \in DOMAIN models[t] :
    StoredConfig(models[t][i]) = StoredConfig(models[t][j])

\* C2: initialize_models(T, n, cfg) on an empty ensemble followed by
\* initialize_models(T, m, cfg), the backend failing in neither, leaves n + m
\* models that all store cfg.  The first call ran on an empty ensemble when
\* the ensemble holds what that call added and nothing else.  Violated for cfg
\* a dict with the three keys, which both calls refuse (see C3).
C2_TwiceTheSameConfig ==
  [][(/\ last.op = "initialize_models" /\ last'.op = "initialize_models"
      /\ last'.tablename = last.tablename
      /\ last.tablename \in btables
      /\ last.err # "BayesDBInvalidBtableError"
      /\ last'.args.model_config = last.args.model_config
      /\ BackendWell(last) /\ BackendWell(last')
      /\ Size(models[last.tablename]) =
           (IF last.err = "ok" THEN last.args.n_models ELSE 0))
     => LET after == models'[last.tablename] IN
        /\ last'.err = "ok"
        /\ Size(after) = last.args.n_models + last'.args.n_models
        /\ \A i \in DOMAIN after :
             after[i].model_config = PromisedConfig(last.args.model_config)]_vars

\* C3: initialize_models on an existing table with an empty ensemble, given
\* a dict with a kernel list, an initialization and a row initialization,
\* succeeds when the backend does and stores n models with exactly that dict.
\* Violated: the else branch of the configuration chain raises "Invalid
\* model config" for every such dict.
C3_ExplicitConfigAccepted ==
  [][(/\ last'.op = "initialize_models"
      /\ last'.tablename \in btables
      /\ IsFullConfig(last'.args.model_config)
      /\ models[last'.tablename] = NoEnsemble
      /\ BackendWell(last'))
     => LET after == models'[last'.tablename] IN
        /\ last'.err = "ok"
        /\ Size(after) = last'.args.n_models
        /\ \A i \in DOMAIN after :
             after[i].model_config = last'.args.model_config.val]_vars

\* C4: initialize_models given no configuration, a value that is neither a
\* preset name nor a dict, a dict missing one of the three keys, or a preset
\* name in any case never raises "Invalid model config".  It goes on with the
\* default configuration, or with the configuration of the preset: the call
\* succeeds whenever the table exists, the backend succeeds and the ensemble
\* stores no other configuration; the backend is called with that
\* initialization and row initialization and the new models store it; the
\* call is refused as a mismatch only when the ensemble stores another one.
C4_ConfigResolution ==
  [][(last'.op = "initialize_models" /\ ~IsFullConfig(last'.args.model_config))
     => LET t == last'.tablename
            config == PromisedConfig(last'.args.model_config)
        IN /\ last'.err # "Invalid model config"
           /\ (/\ t \in btables
               /\ BackendWell(last')
               /\ \A i \in DOMAIN models[t] : models[t][i].model_config = config)
                => last'.err = "ok"
           /\ last'.err = "ok" =>
                /\ last'.calls[1].args.initialization = config.initialization
                /\ last'.calls[1].args.row_initialization = config.row_initialization
                /\ \A i \in DOMAIN models'[t] \ DOMAIN models[t] :
                     models'[t][i].model_config = config
           /\ last'.err = "model config must match existing model config" =>
                \E i \in DOMAIN models[t] : models[t][i].model_config # config]_vars

\* C4 happens: a dict with the kernel list alone was given, and the ensemble
\* was initialized with the default configuration
C4_Witness ==
  /\ last.op = "initialize_models" /\ last.err = "ok"
  /\ last.args.model_config = PyDict([kernel_list |-> CustomConfig.kernel_list])
  /\ models[last.tablename] # NoEnsemble
  /\ \A i \in DOMAIN models[last.tablename] :
       models[last.tablename][i].model_config = DefaultConfig

\* C5: a successful initialize_models(T, n, cfg) has made exactly one backend
\* call, initialize with n_chains = n, and added exactly n models, one per
\* chain, each with iterations 0, empty series and the configuration of cfg;
\* the models the ensemble held are unchanged.
C5_InitializeAddsFreshModels ==
  [][(last'.op = "initialize_models" /\ last'.err = "ok")
     => LET t == last'.tablename
            n == last'.args.n_models
            config == PromisedConfig(last'.args.model_config)
            new == DOMAIN models'[t] \ DOMAIN models[t]
        IN /\ Len(last'.calls) = 1
           /\ last'.calls[1].method = "initialize"
           /\ last'.calls[1].args.n_chains = n
           /\ DOMAIN models[t] \subseteq DOMAIN models'[t]
           /\ \A i \in DOMAIN models[t] : models'[t][i] = models[t][i]
           /\ Cardinality(new) = n
           /\ \A k \in 1..n : \E i \in new : models'[t][i] = FreshModel(k, config)
           /\ \A u \in TableNames \ {t} : models'[u] = models[u]]_vars

\* C5 happens: one model was added to an ensemble that held one
C5_Witness ==
  /\ last.op = "initialize_models" /\ last.err = "ok"
  /\ last.args.n_models = 1
  /\ Size(models[last.tablename]) = 2

\* the ids an analyze call names: those of the list, or every id
Named(model_indices, ens) ==
  IF model_indices.type = "list" THEN Elems(model_indices.val) ELSE DOMAIN ens

\* C6: an analyze call leaves the set of model ids of the ensemble as it
\* was, and every model it does not select, and every other table, unchanged.
C6_AnalyzeFrame ==
  [][last'.op = "analyze"
     => LET t == last'.tablename
            S == Named(last'.args.model_indices, models[t])
        IN /\ DOMAIN models'[t] = DOMAIN models[t]
           /\ \A i \in DOMAIN models[t] \ S : models'[t][i] = models[t][i]
           /\ \A u \in TableNames \ {t} : models'[u] = models[u]]_vars

\* C6 happens: analyze ran on model 1 alone of an ensemble of two, and
\* advanced it
C6_Witness ==
  /\ last.op = "analyze" /\ last.err = "ok"
  /\ last.args.model_indices = PyList(<<1>>)
  /\ DOMAIN models[last.tablename] = {0, 1}
  /\ models[last.tablename][1].X_L.steps > 0

\* C7: a successful analyze call has made one backend call, and has raised
\* the iteration count of each selected model by the number of diagnostic
\* rows that call returned, which is at most the number of iterations asked
\* for and may be less.
C7_IterationsFromDiagnostics ==
  [][(last'.op = "analyze" /\ last'.err = "ok")
     => LET t == last'.tablename
            S == Named(last'.args.model_indices, models[t])
            rows == last'.calls[1].result.done
        IN /\ Len(last'.calls) = 1
           /\ rows <= last'.calls[1].args.n_steps
           /\ \A i \in S :
                /\ models'[t][i].iterations = models[t][i].iterations + rows
                /\ Len(models'[t][i].logscore) =
                     Len(SeriesOf(models[t][i], "logscore")) + rows]_vars

\* C7 happens: two iterations were asked for, the backend returned one row,
\* and the model counts one iteration
C7_Witness ==
  /\ last.op = "analyze" /\ last.err = "ok"
  /\ last.args.iterations = PyInt(2)
  /\ last.calls[1].result.done = 1
  /\ \E i \in DOMAIN models[last.tablename] : models[last.tablename][i].iterations = 1

\* C8: analyze on an existing table with no models raises
\* BayesDBNoModelsError, calls no backend and changes nothing.
C8_AnalyzeNeedsModels ==
  [][(/\ last'.op = "analyze"
      /\ last'.tablename \in btables
      /\ models[last'.tablename] = NoEnsemble)
     => /\ last'.err = "BayesDBNoModelsError"
        /\ last'.calls = <<>>
        /\ models' = models
        /\ btables' = btables]_vars

\* C8 happens: analyze was refused on the existing, empty table
C8_Witness ==
  /\ last.op = "analyze" /\ last.err = "BayesDBNoModelsError"
  /\ last.tablename \in btables
  /\ models[last.tablename] = NoEnsemble

\* C9: when analyze selects several models and the backend fails on one of
\* them after the others did some iterations, those iterations are stored:
\* every other selected model holds its latent state advanced by them.
\* Violated: analyze makes one backend call for all models, and when it
\* raises update_models is not reached.
C9_SiblingProgressKept ==
  [][(/\ last'.op = "analyze"
      /\ Len(last'.calls) = 1
      /\ last'.calls[1].result.failed # {}
      /\ last'.calls[1].result.done > 0
      /\ Len(last'.calls[1].args.X_L) > 1)
     => LET t == last'.tablename
            call == last'.calls[1]
            modelids == SelectModelIds(models[t], last'.args.model_indices)
        IN \A k \in DOMAIN modelids \ call.result.failed :
             models'[t][modelids[k]].X_L = Advance(call.args.X_L[k], call.result.done)]_vars

\* C10: whatever the interleaving of analyze calls, every stored model has
\* latent states X_L and X_D of the same update, and an iteration count that
\* is the number of iterations applied to that latent state.  Violated: two
\* overlapping analyze calls start from the same snapshot, the second to
\* return overwrites the latent state of the first and adds its iterations to
\* the count.
C10_IterationsMatchLatentState ==
  \A t \in TableNames : \A i \in DOMAIN models[t] :
    /\ models[t][i].X_D.steps = models[t][i].X_L.steps
    /\ models[t][i].iterations = models[t][i].X_L.steps

QueryOps == {"select", "infer", "simulate"}

\* the name a query call gave as its INTO target, as a set
IntoTarget(call) ==
  IF call.args.newtablename = PyNone THEN {} ELSE {call.args.newtablename.val}

\* C11: select, infer and simulate are read-only.  Whatever the outcome of
\* the call, every ensemble (latent states, iteration counts, diagnostics)
\* and every existing table (rows, schema, labels, named lists) is after the
\* call what it was before; the catalog can only gain one table, under the
\* INTO name of the call, and gains none when the call has no INTO.
C11_QueriesReadOnly ==
  [][last'.op \in QueryOps =>
       /\ models' = models
       /\ \A t \in btables : tabledata'[t] = tabledata[t]
       /\ \A t \in TableNames \ IntoTarget(last') : tabledata'[t] = tabledata[t]
       /\ btables \subseteq btables'
       /\ btables' \ btables \subseteq IntoTarget(last')
    ]_vars

\* an infer over two models that asked the backend and stored its result
\* as a new table
C11_Witness ==
  /\ last.op = "infer" /\ last.err = "ok" /\ last.calls # <<>>
  /\ last.args.newtablename = PyStr("t2")
  /\ "t2" \in btables /\ tabledata["t2"] # PyNone
  /\ Size(models["t1"]) = 2 /\ tabledata["t1"].T_full = People.rows

\* a function list of raw columns of the table only
OnlyColumns(functions, table) ==
  \A k \in DOMAIN functions.val :
    functions.val[k].fn = "column" /\ In(functions.val[k].text, table.colnames_full)

\* an order-by that is absent or names raw columns of the table only
OrderByColumns(order_by, table) ==
  order_by.type = "list" =>
    \A k \in DOMAIN order_by.val : In(order_by.val[k][1], table.colnames_full)

\* C12: on an existing table with no models, a select (without INTO) whose
\* selected functions and order-by terms are raw columns of the table
\* succeeds and returns its columns and rows.
C12_RawSelectSucceeds ==
  [][/\ last'.op = "select"
     /\ last'.tablename \in btables
     /\ ~has_models(last'.tablename)
     /\ OnlyColumns(last'.args.functions, tabledata[last'.tablename])
     /\ OrderByColumns(last'.args.order_by, tabledata[last'.tablename])
     /\ last'.args.newtablename = PyNone
     => /\ last'.err = "ok"
        /\ last'.ret # PyNone
    ]_vars

\* C13: on an existing table with no models, an infer (without INTO) whose
\* requested functions are raw columns of the table succeeds and returns a
\* result.
C13_RawInferSucceeds ==
  [][/\ last'.op = "infer"
     /\ last'.tablename \in btables
     /\ ~has_models(last'.tablename)
     /\ OnlyColumns(last'.args.functions, tabledata[last'.tablename])
     /\ last'.args.order_by = PyBool(FALSE)
     /\ last'.args.newtablename = PyNone
     => /\ last'.err # "BayesDBNoModelsError"
        /\ last'.err = "ok" => last'.ret # PyNone
    ]_vars

\* the model-backed functions a function list names
BackedIn(functions) ==
  {functions.val[k].fn : k \in DOMAIN functions.val} \ {"column"}

\* C14: on an existing table with an empty ensemble, a select whose function
\* list holds a model-backed function (similarity, row typicality, column
\* typicality, predictive probability) fails with NoModelsError at the
\* precondition check: no backend call has been made.
C14_BackedSelectRefused ==
  [][/\ last'.op = "select"
     /\ last'.tablename \in btables
     /\ ~has_models(last'.tablename)
     /\ BackedIn(last'.args.functions) # {}
     => /\ last'.err = "BayesDBNoModelsError"
        /\ last'.calls = <<>>
    ]_vars

\* C15: on an existing table with an empty ensemble, a select whose order-by
\* uses a model-backed function fails with NoModelsError even when every
\* selected function is a raw column, and an order-by over raw columns of
\* the table does not make the select fail with NoModelsError.
C15_OrderByCheck ==
  [][/\ last'.op = "select"
     /\ last'.tablename \in btables
     /\ ~has_models(last'.tablename)
     /\ OnlyColumns(last'.args.functions, tabledata[last'.tablename])
     => IF OrderByColumns(last'.args.order_by, tabledata[last'.tablename])
          THEN last'.err # "BayesDBNoModelsError"
          ELSE last'.err = "BayesDBNoModelsError" /\ last'.calls = <<>>
    ]_vars

\* C16: simulate on an existing table whose ensemble is empty raises no
\* error: it returns a response made of a plain message, and no backend
\* call is made.
C16_SimulateAdvises ==
  [][/\ last'.op = "simulate"
     /\ last'.tablename \in btables
     /\ ~has_models(last'.tablename)
     => /\ last'.err = "ok"
        /\ last'.ret # PyNone /\ DOMAIN last'.ret = {"message"}
        /\ last'.calls = <<>>
    ]_vars

\* the failures of a query that come before its INTO
EarlierFailures ==
  {"BayesDBInvalidBtableError", "BayesDBNoModelsError", "BayesDBParseError", "BackendError"}

PreconditionFailures ==
  {"BayesDBInvalidBtableError", "BayesDBNoModelsError", "Btable already exists"}

\* C18: a precondition failure is detected before the call makes any backend
\* call; in particular a select, infer or simulate that fails because its
\* INTO target exists has made no backend call.
C18_ChecksBeforeBackend ==
  [][last'.op \in QueryOps /\ last'.err \in PreconditionFailures
       => last'.calls = <<>>
    ]_vars

\* C19: label_columns with a mapping that names a column the table does not
\* have fails with the no-such-column error and leaves the stored labels of
\* the table as they were, whatever valid columns the mapping also names.
C19_LabelsAllOrNothing ==
  [][/\ last'.op = "label_columns"
     /\ last'.tablename \in btables
     /\ \E c \in DOMAIN last'.args.mappings :
          ~In(c, tabledata[last'.tablename].colnames_full)
     => /\ last'.err = "BayesDBColumnDoesNotExistError"
        /\ tabledata' = tabledata
    ]_vars

\* the Engine calls on a table that has to exist
TableOps ==
  {"drop_btable", "initialize_models", "save_models", "drop_models", "analyze",
   "label_columns", "show_model", "select", "infer", "simulate"}

\* C20: every Engine call that takes the name of a table (drop_btable and
\* show_model among them) fails with the no-such-table error when the table
\* does not exist, with no backend call and no change of the catalog.
C20_TableChecked ==
  [][last'.op \in TableOps /\ last'.tablename \notin btables
       => /\ last'.err = "BayesDBInvalidBtableError"
          /\ last'.calls = <<>>
          /\ UNCHANGED <<btables, tabledata, models>>
    ]_vars

\* the schema of a stored table: its column names and their declared types
Schema(table) == <<table.colnames_full, table.cctypes_full>>

DroppedAll ==
  /\ last.op = "drop_models" /\ last.err = "ok"
  /\ last.args.model_indices = PyNone

\* C22: drop_models without model ids on a table with models leaves the
\* table with its rows and schema and an empty ensemble; the analyze that
\* follows fails with the no-models error, and the initialize_models that
\* follows succeeds with any configuration, whatever the dropped one was.
C22_DropAllThenRestart ==
  [][/\ (/\ last'.op = "drop_models" /\ last'.args.model_indices = PyNone
         /\ last'.tablename \in btables /\ has_models(last'.tablename))
          => /\ last'.err = "ok"
             /\ btables' = btables /\ tabledata' = tabledata
             /\ models'[last'.tablename] = NoEnsemble
     /\ (DroppedAll /\ last'.tablename = last.tablename /\ last'.op = "analyze")
          => last'.err = "BayesDBNoModelsError" /\ models' = models
     /\ (/\ DroppedAll /\ last'.tablename = last.tablename
         /\ last'.op = "initialize_models"
         /\ BackendWell(last'))
          => /\ last'.err = "ok"
             /\ Cardinality(DOMAIN models'[last'.tablename]) = last'.args.n_models
    ]_vars

\* what a round trip has to keep of a model
Kept(model) == <<model.X_L, model.X_D, model.iterations>>

\* ensemble b holds the models of ensemble a, each once
SameModels(a, b) ==
  \E f \in [DOMAIN a -> DOMAIN b] :
    /\ \A i, j \in DOMAIN a : f[i] = f[j] => i = j
    /\ \A j \in DOMAIN b : \E i \in DOMAIN a : f[i] = j
    /\ \A i \in DOMAIN a : Kept(b[f[i]]) = Kept(a[i])

ResultNames(ret) ==
  IF "data" \in DOMAIN ret THEN [k \in DOMAIN ret.data |-> ret.data[k][1].val] ELSE <<>>

\* C24: named lists are last-write-wins: after an estimate_columns call with
\* a list name, the column list of that name is the sequence of column names
\* of the result of the call (after the where clause, the ordering and the
\* limit), whether or not a list of that name was there before, and the
\* lists of every other name are as they were.
C24_ListLastWriteWins ==
  [][/\ last'.op = "estimate_columns" /\ last'.err = "ok"
     /\ last'.args.name.type = "str" /\ last'.args.name.val # <<>>
     => LET name == last'.args.name.val
            before == tabledata[last'.tablename]
            after == tabledata'[last'.tablename]
        IN /\ DOMAIN after.column_lists = DOMAIN before.column_lists \cup {name}
           /\ after.column_lists[name] = ResultNames(last'.ret)
           /\ \A n \in DOMAIN before.column_lists \ {name} :
                after.column_lists[n] = before.column_lists[n]
           /\ after.row_lists = before.row_lists
    ]_vars

\* a list of one column stored by a call with a limit, next to a list of
\* another name that holds a cluster of two columns
C24_Witness ==
  /\ last.op = "estimate_columns" /\ last.err = "ok"
  /\ last.args.name = PyStr(<<"k">>) /\ last.args.limit = PyInt(1)
  /\ tabledata["t1"].column_lists[<<"k">>] = ResultNames(last.ret)
  /\ Len(ResultNames(last.ret)) = 1
  /\ <<"k","_","0">> \in DOMAIN tabledata["t1"].column_lists
  /\ Len(tabledata["t1"].column_lists[<<"k","_","0">>]) = 2

\* the calls of the relational analysis
EstimateOps == {"estimate_columns", "estimate_pairwise_row", "estimate_pairwise"}

\* C25: estimate_columns, estimate_pairwise_row and estimate_pairwise fail
\* with the no-models error on a table without models, whatever their
\* arguments (estimate_columns with neither where clause nor order-by among
\* them), and store no named list then.
C25_EstimateNeedsModels ==
  [][/\ last'.op \in EstimateOps
     /\ last'.tablename \in btables /\ ~has_models(last'.tablename)
     => /\ last'.err = "BayesDBNoModelsError"
        /\ tabledata' = tabledata
    ]_vars

\* the lists a pairwise call stores its clusters in, and the name of cluster i
ListsOf(call, table) ==
  IF call.op = "estimate_pairwise_row" THEN table.row_lists ELSE table.column_lists

ClusterName(call, i) == call.args.clusters_name.val \o <<"_", Digit(i)>>

\* C27: estimate_pairwise_row and estimate_pairwise, given a threshold and a
\* clusters name, store one list per connected component, component i under
\* '<clusters name>_<i>' for i = 0..k-1, in the place of any list of that
\* name; the stored components are pairwise disjoint and together hold
\* every row or column of the matrix; lists of other names are unchanged;
\* and without a clusters name no list is stored.
C27_ClustersStored ==
  [][/\ last'.op \in {"estimate_pairwise_row", "estimate_pairwise"}
     /\ last'.err = "ok"
     => LET before == ListsOf(last', tabledata[last'.tablename])
            after == ListsOf(last', tabledata'[last'.tablename])
            named == last'.args.clusters_name # PyNone
        IN /\ named /\ last'.args.threshold # PyNone
                => LET k == Len(last'.ret.clusters)
                       names == {ClusterName(last', i) : i \in 0..(k - 1)}
                       members(i) == Elems(after[ClusterName(last', i)])
                   IN /\ k > 0
                      /\ DOMAIN after = DOMAIN before \cup names
                      /\ \A n \in DOMAIN before \ names : after[n] = before[n]
                      /\ \A i, j \in 0..(k - 1) : i # j => members(i) \cap members(j) = {}
                      /\ UNION {members(i) : i \in 0..(k - 1)} = Elems(last'.ret.column_names)
           /\ ~named => tabledata' = tabledata
    ]_vars

\* the query columns of a simulate call that no given fixes, in query order
Ungiven(call) ==
  LET functions == call.args.functions.val
      givens == IF call.args.givens = PyNone THEN <<>> ELSE call.args.givens.val
  IN FilterSeq([k \in DOMAIN functions |-> functions[k].text],
               {functions[k].text : k \in DOMAIN functions}
                 \ {givens[g][1] : g \in DOMAIN givens})

\* C26: simulate on a table with models returns numpredictions rows; in
\* every row a query column fixed by a given holds the given value and every
\* other query column a draw of the backend, in the order of the query
\* columns; the backend is called once, for the query columns that no given
\* fixes, and not at all when a given fixes every query column.
C26_SimulateRows ==
  [][/\ last'.op = "simulate"
     /\ last'.tablename \in btables /\ has_models(last'.tablename)
     /\ last'.args.newtablename = PyNone /\ BackendWell(last')
     => LET table == tabledata[last'.tablename]
            functions == last'.args.functions.val
            givens == IF last'.args.givens = PyNone THEN <<>> ELSE last'.args.givens.val
            ungiven == Ungiven(last')
        IN /\ last'.err = "ok"
           /\ Len(last'.ret.data) = last'.args.numpredictions
           /\ \A r \in DOMAIN last'.ret.data :
                /\ Len(last'.ret.data[r]) = Len(functions)
                /\ \A k \in DOMAIN functions :
                     IF \E g \in DOMAIN givens : givens[g][1] = functions[k].text
                       THEN \E g \in DOMAIN givens :
                              /\ givens[g][1] = functions[k].text
                              /\ last'.ret.data[r][k] = PyInt(givens[g][2])
                       ELSE last'.ret.data[r][k] =
                              BackendValue("simple_predictive_sample", Len(table.T_full) + 1)
           /\ IF ungiven = <<>> THEN last'.calls = <<>>
              ELSE /\ Len(last'.calls) = 1
                   /\ last'.calls[1].method = "simple_predictive_sample"
                   /\ last'.calls[1].args.n = last'.args.numpredictions
                   /\ [k \in DOMAIN last'.calls[1].args.Q |-> last'.calls[1].args.Q[k][2]]
                        = [k \in DOMAIN ungiven |->
                             PyInt(IndexOf(table.colnames_full, ungiven[k]) - 1)]
    ]_vars

\* the model ids an analyze call selects, in the order of selection
Selection(call, ens) ==
  IF call.args.model_indices.type = "list"
    THEN call.args.model_indices.val ELSE Sorted(DOMAIN ens)

C29_IterationsNeverDecrease ==
  [][\A t \in btables \cap btables' :
       \A i \in DOMAIN models[t] \cap DOMAIN models'[t] :
         IF /\ last'.op = "analyze" /\ last'.tablename = t
            /\ i \in Named(last'.args.model_indices, models[t])
           THEN models'[t][i].iterations >= models[t][i].iterations
           ELSE models'[t][i].iterations = models[t][i].iterations
    ]_vars

\* analyze of model 1 alone, loaded from a version 0.1 file, ran one
\* iteration; model 0 beside it still has none
C29_Witness ==
  /\ last.op = "analyze" /\ last.err = "ok"
  /\ last.args.model_indices = PyList(<<1>>)
  /\ DOMAIN models["t1"] = {0, 1}
  /\ models["t1"][1].iterations = LegacyIterations + 1
  /\ models["t1"][0].iterations = 0

====
